---- MODULE Spec2Model ----
(***************************************************************************)
(* A model of the /chat endpoint of the easyT chat server, in the variants *)
(* the repository holds side by side.  Each variant is one express         *)
(* handler; a handler is a chain of segments separated by awaits.  Node    *)
(* runs one segment at a time, so every action below is one segment: it    *)
(* starts when the awaited upstream call settles (with a value, an error   *)
(* value or an exception), runs the synchronous code up to the next await  *)
(* and issues that call.  Requests are numbered in arrival order.          *)
(***************************************************************************)
EXTENDS Integers, Sequences, FiniteSets, TLC

\* ------------------------------------------------------------------ bounds
MaxReq == 2

Req == 1..MaxReq

\* ------------------------------------------------------------- vocabulary
Undefined == "undefined"

\* !v for a body field: absent or the empty string
Falsy_absent_only(v) == v = Undefined

Falsy(v) == v \in {Undefined, ""}

\* client-supplied session ids; a body may also omit the field
SessionIds == {"s1"}
\* crypto.randomUUID(): a fresh id per request
randomUUID(r) == "uuid" \o ToString(r)
\* the text of request r's message, and of the model's reply to it
MessageOf(r) == "m" \o ToString(r)
ContentOf(r) == "a" \o ToString(r)

\* retrieved course rows (match_ai_knowledge); a row may lack its url
CourseRows == {<<>>, <<[title |-> "c1", url |-> "u1"]>>,
               <<[title |-> "c1", url |-> "u1"], [title |-> "c2", url |-> ""]>>}

VARIABLES
  variant,        \* the server file that is running
  pc,             \* pc[r]: the await request r is suspended at
  loc,            \* loc[r]: the handler's local variables
  conversations,  \* the in-process Map session_id -> history array
  chat_messages,  \* the rows of the chat_messages table, oldest first
  chat_events,    \* the rows of the chat_events table
  user_memory,    \* part_014: the rows of the user_memory table
  recent_activity,\* the webhook's rows of the recent_activity table
  clock,          \* the wall clock, in minutes
  arrays,         \* part_003: the history arrays ever allocated, by reference
  late,           \* part_013: inserts still in flight after their timer won the race
  resp,           \* resp[r]: the responses sent on r's res object
  calls           \* calls[r]: the upstream calls r issued, with their outcome

vars == <<variant, pc, loc, conversations, chat_messages, chat_events, user_memory,
          recent_activity, clock, arrays, late, resp, calls>>

db == <<chat_messages, chat_events, user_memory, recent_activity>>
\* state that only one variant touches
aux == <<arrays, late, clock>>

\* ------------------------------------------------------------ shared parts
NoLoc == [message |-> Undefined, session_id |-> Undefined, reply |-> Undefined]

Turn(role, content) == [role |-> role, content |-> content]

Body(text, links, wrapped) == [text |-> text, links |-> links, wrapped |-> wrapped]

Response(status, reply, session_id) ==
  [status |-> status, reply |-> reply, session_id |-> session_id]

Issued(cs, kind, arg) == Append(cs, [kind |-> kind, arg |-> arg, outcome |-> "pending"])

\* the call is not awaited: the code goes on while it is outstanding
Settled_not_awaited(cs, outcome) == cs

Settled(cs, outcome) == [cs EXCEPT ![Len(cs)].outcome = outcome]

\* requests arrive one after another: r is the next one
NextToArrive(r) == pc[r] = "idle" /\ \A q \in Req : q < r => pc[q] # "idle"

\* history.push(turn)
push_overwrite(history, turn) == <<turn>>

push(history, turn) == Append(history, turn)

\* conversations.has / set / get of the handler's prologue
setupHistory(convs, session_id) ==
  IF session_id \in DOMAIN convs THEN convs
  ELSE [s \in DOMAIN convs \cup {session_id} |->
          IF s = session_id THEN <<>> ELSE convs[s]]

\* the catch block: one 500 with the fixed body
catch500_partial(r) ==
  /\ resp' = [resp EXCEPT ![r] = Append(@, Response(200, Body(loc[r].reply, <<>>, FALSE), loc[r].session_id))]
  /\ pc' = [pc EXCEPT ![r] = "done"]

catch500(r) ==
  /\ resp' = [resp EXCEPT ![r] = Append(@, Response(500, Body("TEMP_ERROR", <<>>, FALSE), Undefined))]
  /\ pc' = [pc EXCEPT ![r] = "done"]

\* -------------------------------- part_002 and part_010: in-memory history
\* The two handlers are the same statements up to the assistant push;
\* part_010 then searches courses only when the reply reads as a final
\* recommendation (shouldRecommend), part_002 always.
MemVariants == {"part_002", "part_010"}

\* relatedCourses.forEach(course => { if (course.url) reply += <a ...> })
courseButtons(rows) == SelectSeq(rows, LAMBDA c : ~Falsy(c.url))

ChatMem_Arrive(r, message, sid) ==
  /\ variant \in MemVariants
  /\ NextToArrive(r)
  /\ IF Falsy(message)
     THEN /\ resp' = [resp EXCEPT ![r] = Append(@, Response(400, Body("NO_MESSAGE", <<>>, FALSE), Undefined))]
          /\ pc' = [pc EXCEPT ![r] = "done"]
          /\ UNCHANGED <<loc, conversations, calls>>
     ELSE LET session_id == IF Falsy(sid) THEN randomUUID(r) ELSE sid
              convs == setupHistory(conversations, session_id)
              history == push(convs[session_id], Turn("user", message))
          IN /\ conversations' = [convs EXCEPT ![session_id] = history]
             /\ loc' = [loc EXCEPT ![r] = [message |-> message, session_id |-> session_id, reply |-> Undefined]]
             /\ calls' = [calls EXCEPT ![r] = Issued(@, "completion", history)]
             /\ pc' = [pc EXCEPT ![r] = "await_completion"]
             /\ UNCHANGED resp
  /\ UNCHANGED <<variant, db, aux>>

\* openai.chat.completions.create settles; completion.choices[0].message.content
ChatMem_Completion(r, outcome, shouldRecommend) ==
  /\ variant \in MemVariants
  /\ pc[r] = "await_completion"
  /\ IF outcome # "ok"
     THEN /\ calls' = [calls EXCEPT ![r] = Settled(@, outcome)]
          /\ catch500(r)
          /\ UNCHANGED <<loc, conversations>>
     ELSE LET reply == ContentOf(r)
              sid == loc[r].session_id
          IN /\ conversations' = [conversations EXCEPT ![sid] = push(@, Turn("assistant", reply))]
             /\ loc' = [loc EXCEPT ![r].reply = reply]
             /\ IF variant = "part_010" /\ ~shouldRecommend
                THEN /\ calls' = [calls EXCEPT ![r] = Settled(@, "ok")]
                     /\ resp' = [resp EXCEPT ![r] = Append(@, Response(200, Body(reply, <<>>, TRUE), sid))]
                     /\ pc' = [pc EXCEPT ![r] = "done"]
                ELSE /\ calls' = [calls EXCEPT ![r] = Issued(Settled(@, "ok"), "embedding", <<>>)]
                     /\ pc' = [pc EXCEPT ![r] = "await_embedding"]
                     /\ UNCHANGED resp
  /\ UNCHANGED <<variant, db, aux>>

\* getRelatedCourses: createEmbedding settles
ChatMem_Embedding(r, outcome) ==
  /\ variant \in MemVariants
  /\ pc[r] = "await_embedding"
  /\ IF outcome # "ok"
     THEN /\ calls' = [calls EXCEPT ![r] = Settled(@, outcome)]
          /\ catch500(r)
     ELSE /\ calls' = [calls EXCEPT ![r] = Issued(Settled(@, "ok"), "rpc", <<>>)]
          /\ pc' = [pc EXCEPT ![r] = "await_rpc"]
          /\ UNCHANGED resp
  /\ UNCHANGED <<variant, loc, conversations, db, aux>>

\* getRelatedCourses: supabase.rpc settles; data || []; buttons; wrapper; res.json
ChatMem_Rpc(r, outcome, data) ==
  /\ variant \in MemVariants
  /\ pc[r] = "await_rpc"
  /\ calls' = [calls EXCEPT ![r] = Settled(@, outcome)]
  /\ IF outcome = "threw"
     THEN catch500(r)
     ELSE LET relatedCourses == IF outcome = "ok" THEN data ELSE <<>>
              links == IF Len(relatedCourses) > 0 THEN courseButtons(relatedCourses) ELSE <<>>
          IN /\ resp' = [resp EXCEPT ![r] = Append(@, Response(200, Body(loc[r].reply, links, TRUE), loc[r].session_id))]
             /\ pc' = [pc EXCEPT ![r] = "done"]
  /\ UNCHANGED <<variant, loc, conversations, db, aux>>

InitMem ==
  /\ variant \in MemVariants
  /\ pc = [r \in Req |-> "idle"]
  /\ loc = [r \in Req |-> NoLoc]
  /\ conversations = << >>
  /\ chat_messages = <<>>
  /\ chat_events = <<>>
  /\ user_memory = <<>>
  /\ recent_activity = <<>>
  /\ clock = 0
  /\ arrays = <<>>
  /\ late = {}
  /\ resp = [r \in Req |-> <<>>]
  /\ calls = [r \in Req |-> <<>>]

NextMem ==
  \E r \in Req :
    \/ \E message \in {Undefined, "", MessageOf(r)}, sid \in SessionIds \cup {Undefined} :
         ChatMem_Arrive(r, message, sid)
    \/ \E outcome \in {"ok", "threw", "malformed"}, shouldRecommend \in BOOLEAN :
         ChatMem_Completion(r, outcome, shouldRecommend)
    \/ \E outcome \in {"ok", "threw", "malformed"} : ChatMem_Embedding(r, outcome)
    \/ \E outcome \in {"ok", "error", "threw"}, data \in CourseRows : ChatMem_Rpc(r, outcome, data)

SpecMem == InitMem /\ [][NextMem]_vars


\* ------------------------------- server.js 469-629: structured follow-up
\* Arabic text is written in Latin letters: "alsi3r" the price, "almuddat"
\* the duration spelt with ta marbuta, "almuddah" the same after
\* normalizeArabic rewrote the last letter, "rabit" link, "kors" a word that
\* is no follow-up keyword.
MaxReqDb == 2

Null == "null"

FollowUpMessages == {"alsi3r", "almuddat", "rabit", "kors"}

\* normalizeArabic: ta marbuta becomes ha; the other letters of these words stay
normalizeArabic(text) == IF text = "almuddat" THEN "almuddah" ELSE text

\* String.prototype.includes on the words above
includes(text, keyword) ==
  CASE text = "alsi3r"   -> keyword \in {"si3r", "alsi3r"}
    [] text = "almuddah" -> keyword \in {"muddah", "almuddah"}
    [] text = "almuddat" -> keyword \in {"almuddat"}
    [] text = "rabit"    -> keyword \in {"rabit"}
    [] OTHER             -> FALSE

\* the courses table, read-only for the server: document d1 has a course row,
\* document d2 has none
courses ==
  [d \in {"d1", "d2"} |->
     IF d = "d1"
     THEN <<[document_id |-> "d1", title |-> "t1", description |-> "desc1",
             price |-> "9.99$", duration |-> "3h", url |-> "u1"]>>
     ELSE <<>>]

\* what match_documents may return: rows, best match first
MatchResults == {<<>>, <<"d1">>, <<"d2", "d1">>}

\* .eq("session_id").not("course_id","is",null).order(desc).limit(1)
lastCourseRows(rows, session_id) ==
  LET hits == {i \in 1..Len(rows) :
                 rows[i].session_id = session_id /\ rows[i].course_id # Null}
  IN IF hits = {} THEN <<>>
     ELSE <<rows[CHOOSE i \in hits : \A j \in hits : j <= i]>>

NoLocDb == [message |-> Undefined, session_id |-> Undefined,
            normalizedMessage |-> Undefined, activeDocumentId |-> Null,
            course |-> <<>>, selectedDocument |-> Null, reply |-> Undefined]

Row(session_id, role, message, course_id) ==
  [session_id |-> session_id, role |-> role, message |-> message, course_id |-> course_id]

\* res.json({ reply }): these replies carry no session_id
replyOnly(r, text) ==
  /\ resp' = [resp EXCEPT ![r] = Append(@, Response(200, Body(text, <<>>, FALSE), Undefined))]
  /\ pc' = [pc EXCEPT ![r] = "done"]

catch500Db(r) ==
  /\ resp' = [resp EXCEPT ![r] = Append(@, Response(500, Body("SERVER_ERROR", <<>>, FALSE), Undefined))]
  /\ pc' = [pc EXCEPT ![r] = "done"]

await(r, cs, kind, label) ==
  /\ calls' = [calls EXCEPT ![r] = Issued(cs, kind, <<>>)]
  /\ pc' = [pc EXCEPT ![r] = label]
  /\ UNCHANGED resp

Chat469_Arrive(r, message, sid) ==
  /\ variant = "server_469"
  /\ NextToArrive(r) /\ r <= MaxReqDb
  /\ IF Falsy(message) \/ Falsy(sid)
     THEN /\ resp' = [resp EXCEPT ![r] = Append(@, Response(400, Body("SESSION_ERROR", <<>>, FALSE), Undefined))]
          /\ pc' = [pc EXCEPT ![r] = "done"]
          /\ UNCHANGED <<loc, calls>>
     ELSE /\ loc' = [loc EXCEPT ![r] = [NoLocDb EXCEPT !.message = message, !.session_id = sid,
                                          !.normalizedMessage = normalizeArabic(message)]]
          /\ await(r, calls[r], "select_last_course", "await_lastCourse")
  /\ UNCHANGED <<variant, conversations, db, aux>>

\* the last course_id of the session; then the user message is inserted
Chat469_LastCourse(r, outcome) ==
  /\ variant = "server_469"
  /\ pc[r] = "await_lastCourse"
  /\ IF outcome = "threw"
     THEN /\ calls' = [calls EXCEPT ![r] = Settled(@, outcome)]
          /\ catch500Db(r)
          /\ UNCHANGED loc
     ELSE LET lastCourse == IF outcome = "ok"
                            THEN lastCourseRows(chat_messages, loc[r].session_id) ELSE <<>>
          IN /\ loc' = [loc EXCEPT ![r].activeDocumentId =
                          IF Len(lastCourse) > 0 THEN lastCourse[1].course_id ELSE Null]
             /\ await(r, Settled(calls[r], outcome), "insert_user", "await_insertUser")
  /\ UNCHANGED <<variant, conversations, db, aux>>

\* the insert settles; a follow-up looks the active course up, else a new search
Chat469_InsertUser(r, outcome) ==
  /\ variant = "server_469"
  /\ pc[r] = "await_insertUser"
  /\ chat_messages' = IF outcome = "ok"
                      THEN Append(chat_messages, Row(loc[r].session_id, "user", loc[r].message, Null))
                      ELSE chat_messages
  /\ IF outcome = "threw"
     THEN /\ calls' = [calls EXCEPT ![r] = Settled(@, outcome)]
          /\ catch500Db(r)
     ELSE IF loc[r].activeDocumentId # Null
          THEN await(r, Settled(calls[r], outcome), "select_course", "await_course")
          ELSE await(r, Settled(calls[r], outcome), "embedding", "await_embedding")
  /\ UNCHANGED <<variant, conversations, loc, chat_events, user_memory, recent_activity, aux>>

\* the keyword tests of the structured follow-up, in the order of the source
followUpKind_priceDropped(nm) ==
  IF includes(nm, "muddah") \/ includes(nm, "almuddah") \/ includes(nm, "almuddat") THEN "duration"
  ELSE IF includes(nm, "rabit") \/ includes(nm, "link") THEN "link"
  ELSE "none"

followUpKind(nm) ==
  IF includes(nm, "muddah") \/ includes(nm, "almuddah") \/ includes(nm, "almuddat") THEN "duration"
  ELSE IF includes(nm, "si3r") \/ includes(nm, "alsi3r") THEN "price"
  ELSE IF includes(nm, "rabit") \/ includes(nm, "link") THEN "link"
  ELSE "none"

\* the active course's row settles: a keyword is answered from it
Chat469_Course(r, outcome) ==
  /\ variant = "server_469"
  /\ pc[r] = "await_course"
  /\ LET course == IF outcome = "ok" THEN courses[loc[r].activeDocumentId] ELSE <<>>
         kind == followUpKind(loc[r].normalizedMessage)
         cs == Settled(calls[r], outcome)
     IN /\ loc' = [loc EXCEPT ![r].course = course]
        /\ IF outcome = "threw"
           THEN calls' = [calls EXCEPT ![r] = cs] /\ catch500Db(r)
           ELSE IF Len(course) > 0 /\ kind = "duration"
           THEN calls' = [calls EXCEPT ![r] = cs] /\ replyOnly(r, "DURATION_IS:" \o course[1].duration)
           ELSE IF Len(course) > 0 /\ kind = "price"
           THEN await(r, cs, "insert_event", "await_priceEvent")
           ELSE IF Len(course) > 0 /\ kind = "link"
           THEN await(r, cs, "insert_event", "await_linkEvent")
           ELSE await(r, cs, "embedding", "await_embedding")
  /\ UNCHANGED <<variant, conversations, db, aux>>

\* chat_events insert (price_view / link_click), then the templated sentence
Chat469_Event(r, outcome) ==
  /\ variant = "server_469"
  /\ pc[r] \in {"await_priceEvent", "await_linkEvent"}
  /\ calls' = [calls EXCEPT ![r] = Settled(@, outcome)]
  /\ chat_events' = IF outcome = "ok"
                    THEN Append(chat_events,
                           [session_id |-> loc[r].session_id,
                            event_type |-> IF pc[r] = "await_priceEvent" THEN "price_view" ELSE "link_click",
                            course_id |-> loc[r].activeDocumentId])
                    ELSE chat_events
  /\ IF outcome = "threw" THEN catch500Db(r)
     ELSE IF pc[r] = "await_priceEvent"
          THEN replyOnly(r, "PRICE_IS:" \o loc[r].course[1].price)
          ELSE replyOnly(r, "LINK_IS:" \o loc[r].course[1].url)
  /\ UNCHANGED <<variant, conversations, loc, chat_messages, user_memory, recent_activity, aux>>

Chat469_Embedding(r, outcome) ==
  /\ variant = "server_469"
  /\ pc[r] = "await_embedding"
  /\ IF outcome # "ok"
     THEN calls' = [calls EXCEPT ![r] = Settled(@, outcome)] /\ catch500Db(r)
     ELSE await(r, Settled(calls[r], outcome), "rpc", "await_match")
  /\ UNCHANGED <<variant, conversations, loc, db, aux>>

Chat469_Match(r, outcome, data) ==
  /\ variant = "server_469"
  /\ pc[r] = "await_match"
  /\ LET results == IF outcome = "ok" THEN data ELSE <<>>
         cs == Settled(calls[r], outcome)
     IN IF outcome = "threw"
        THEN calls' = [calls EXCEPT ![r] = cs] /\ catch500Db(r) /\ UNCHANGED loc
        ELSE IF Len(results) = 0
        THEN calls' = [calls EXCEPT ![r] = cs] /\ replyOnly(r, "NO_MATCH") /\ UNCHANGED loc
        ELSE /\ loc' = [loc EXCEPT ![r].selectedDocument = results[1]]
             /\ await(r, cs, "select_course", "await_selectedCourse")
  /\ UNCHANGED <<variant, conversations, db, aux>>

Chat469_SelectedCourse(r, outcome) ==
  /\ variant = "server_469"
  /\ pc[r] = "await_selectedCourse"
  /\ LET selectedCourse == IF outcome = "ok" THEN courses[loc[r].selectedDocument] ELSE <<>>
         cs == Settled(calls[r], outcome)
     IN IF outcome = "threw"
        THEN calls' = [calls EXCEPT ![r] = cs] /\ catch500Db(r) /\ UNCHANGED loc
        ELSE IF Len(selectedCourse) = 0
        THEN calls' = [calls EXCEPT ![r] = cs] /\ replyOnly(r, "COURSE_LOAD_ERROR") /\ UNCHANGED loc
        ELSE /\ loc' = [loc EXCEPT ![r].reply = "COURSE:" \o selectedCourse[1].title]
             /\ await(r, cs, "insert_assistant", "await_insertAssistant")
  /\ UNCHANGED <<variant, conversations, db, aux>>

\* the assistant row carries the matched document as course_id
Chat469_InsertAssistant(r, outcome) ==
  /\ variant = "server_469"
  /\ pc[r] = "await_insertAssistant"
  /\ calls' = [calls EXCEPT ![r] = Settled(@, outcome)]
  /\ chat_messages' = IF outcome = "ok"
                      THEN Append(chat_messages,
                             Row(loc[r].session_id, "assistant", loc[r].reply, loc[r].selectedDocument))
                      ELSE chat_messages
  /\ IF outcome = "threw" THEN catch500Db(r) ELSE replyOnly(r, loc[r].reply)
  /\ UNCHANGED <<variant, conversations, loc, chat_events, user_memory, recent_activity, aux>>

Init469 ==
  /\ variant = "server_469"
  /\ pc = [r \in Req |-> "idle"]
  /\ loc = [r \in Req |-> NoLocDb]
  /\ conversations = << >>
  /\ chat_messages = <<>>
  /\ chat_events = <<>>
  /\ user_memory = <<>>
  /\ recent_activity = <<>>
  /\ clock = 0
  /\ arrays = <<>>
  /\ late = {}
  /\ resp = [r \in Req |-> <<>>]
  /\ calls = [r \in Req |-> <<>>]

DbOutcomes == {"ok", "error", "threw"}

Next469 ==
  \E r \in Req :
    \/ \E message \in FollowUpMessages \cup {Undefined}, sid \in SessionIds \cup {Undefined} :
         Chat469_Arrive(r, message, sid)
    \/ \E outcome \in DbOutcomes : Chat469_LastCourse(r, outcome)
    \/ \E outcome \in DbOutcomes : Chat469_InsertUser(r, outcome)
    \/ \E outcome \in DbOutcomes : Chat469_Course(r, outcome)
    \/ \E outcome \in DbOutcomes : Chat469_Event(r, outcome)
    \/ \E outcome \in {"ok", "threw", "malformed"} : Chat469_Embedding(r, outcome)
    \/ \E outcome \in DbOutcomes, data \in MatchResults : Chat469_Match(r, outcome, data)
    \/ \E outcome \in DbOutcomes : Chat469_SelectedCourse(r, outcome)
    \/ \E outcome \in DbOutcomes : Chat469_InsertAssistant(r, outcome)

Spec469 == Init469 /\ [][Next469]_vars


\* --------------------------------- part_013 1-230: timeouts and the retry
MaxReq013 == 1

DefaultRetries == 2
RetryDelayMs == 1500

\* if (retries > 0) of createEmbeddingSafe's catch block
shouldRetry_once_more(retries) == retries >= 0

shouldRetry(retries) == retries > 0

NoLoc013 == [message |-> Undefined, session_id |-> Undefined,
             normalizedMessage |-> Undefined, retries |-> DefaultRetries,
             selectedDocument |-> Null, reply |-> Undefined]

\* the catch block answers although a reply has gone out already
catch500_013_twice(r) ==
  /\ resp' = [resp EXCEPT ![r] = @ \o <<Response(500, Body("SERVER_ERROR_013", <<>>, FALSE), Undefined),
                                         Response(500, Body("SERVER_ERROR_013", <<>>, FALSE), Undefined)>>]
  /\ pc' = [pc EXCEPT ![r] = "done"]

catch500_013(r) ==
  /\ resp' = [resp EXCEPT ![r] = Append(@, Response(500, Body("SERVER_ERROR_013", <<>>, FALSE), Undefined))]
  /\ pc' = [pc EXCEPT ![r] = "done"]

\* withTimeout(promise, ms): the promise settles first ("ok", "error",
\* "threw") or the timer does ("timeout", a rejection)
TimedOutcomes == {"ok", "error", "threw", "timeout"}

\* the timer's rejection is lost: the race waits for the call alone
Rejected_without_timer(outcome) == outcome \in {"threw", "malformed"}

Rejected(outcome) == outcome \in {"threw", "timeout", "malformed"}

\* what withTimeout leaves behind once the race is decided: the timer, which
\* is never cleared, when the call settled first; the call, still in flight,
\* when the timer fired first (an insert in flight is held as its row)
Timer(r, label) == [timer |-> label, request |-> r]

InFlight(r, label) == [call |-> label, request |-> r]

loser(outcome, r, label, inFlight) ==
  IF outcome = "timeout" THEN {inFlight} ELSE {Timer(r, label)}

Chat013_Arrive(r, message, sid) ==
  /\ variant = "part_013"
  /\ NextToArrive(r) /\ r <= MaxReq013
  /\ IF Falsy(message)
     THEN /\ resp' = [resp EXCEPT ![r] = Append(@, Response(400, Body("NO_MESSAGE", <<>>, FALSE), Undefined))]
          /\ pc' = [pc EXCEPT ![r] = "done"]
          /\ UNCHANGED <<loc, calls>>
     ELSE /\ loc' = [loc EXCEPT ![r] = [NoLoc013 EXCEPT !.message = message,
                                          !.session_id = IF Falsy(sid) THEN randomUUID(r) ELSE sid,
                                          !.normalizedMessage = normalizeArabic(message)]]
          /\ await(r, calls[r], "insert_user", "await_insertUser")
  /\ UNCHANGED <<variant, conversations, db, aux>>

\* the user row's insert (10 s limit), then createEmbeddingSafe's first attempt
Chat013_InsertUser(r, outcome) ==
  /\ variant = "part_013"
  /\ pc[r] = "await_insertUser"
  /\ LET row == Row(loc[r].session_id, "user", loc[r].message, Null)
     IN /\ chat_messages' = IF outcome = "ok" THEN Append(chat_messages, row) ELSE chat_messages
        /\ late' = late \cup loser(outcome, r, "Insert message", row)
  /\ IF Rejected(outcome)
     THEN calls' = [calls EXCEPT ![r] = Settled(@, outcome)] /\ catch500_013(r)
     ELSE await(r, Settled(calls[r], outcome), "embedding", "await_embedding")
  /\ UNCHANGED <<variant, conversations, loc, chat_events, user_memory, recent_activity, arrays, clock>>

\* an insert that lost the race to its timer settles afterwards
Late013_Settle(row, landed) ==
  /\ variant = "part_013"
  /\ row \in late /\ "role" \in DOMAIN row
  /\ late' = late \ {row}
  /\ chat_messages' = IF landed THEN Append(chat_messages, row) ELSE chat_messages
  /\ UNCHANGED <<variant, pc, loc, conversations, chat_events, user_memory, recent_activity, arrays, resp, calls, clock>>

\* the handler once createEmbeddingSafe has returned: if (!queryEmbedding)
\* the temporary-error reply, else the search
afterEmbedding_searches_anyway(r, cs, queryEmbedding) == await(r, cs, "rpc", "await_match")

afterEmbedding(r, cs, queryEmbedding) ==
  IF queryEmbedding = Null
  THEN /\ calls' = [calls EXCEPT ![r] = cs]
       /\ replyOnly(r, "TEMPORARY_ERROR")
  ELSE await(r, cs, "rpc", "await_match")

\* the timer of a race the call has won fires: its reject is ignored; a read
\* that lost the race settles: its result is ignored
Late013_Ignored(x) ==
  /\ variant = "part_013"
  /\ x \in late /\ "role" \notin DOMAIN x
  /\ late' = late \ {x}
  /\ UNCHANGED <<variant, pc, loc, conversations, db, arrays, resp, calls, clock>>

\* createEmbeddingSafe: the attempt settles; success returns the embedding to
\* the handler (which searches), a failure retries after the delay or returns
\* null (and the handler replies with the temporary-error text)
createEmbeddingSafe_Settle(r, outcome) ==
  /\ variant = "part_013"
  /\ pc[r] = "await_embedding"
  /\ LET cs == Settled(calls[r], outcome)
     IN IF outcome = "ok"
        THEN afterEmbedding(r, cs, "embedding")
        ELSE IF shouldRetry(loc[r].retries)
        THEN /\ calls' = [calls EXCEPT ![r] = Issued(cs, "delay", <<RetryDelayMs>>)]
             /\ pc' = [pc EXCEPT ![r] = "await_retryDelay"]
             /\ UNCHANGED resp
        ELSE afterEmbedding(r, cs, Null)
  /\ UNCHANGED <<variant, conversations, loc, db, aux>>

\* the delay is over: return createEmbeddingSafe(text, retries - 1)
createEmbeddingSafe_Retry(r) ==
  /\ variant = "part_013"
  /\ pc[r] = "await_retryDelay"
  /\ loc' = [loc EXCEPT ![r].retries = @ - 1]
  /\ await(r, Settled(calls[r], "ok"), "embedding", "await_embedding")
  /\ UNCHANGED <<variant, conversations, db, aux>>

\* match_documents (20 s limit)
Chat013_Match(r, outcome, data) ==
  /\ variant = "part_013"
  /\ pc[r] = "await_match"
  /\ LET cs == Settled(calls[r], outcome)
     IN IF Rejected(outcome)
        THEN calls' = [calls EXCEPT ![r] = cs] /\ catch500_013(r) /\ UNCHANGED loc
        ELSE IF outcome = "error"
        THEN calls' = [calls EXCEPT ![r] = cs] /\ replyOnly(r, "SEARCH_ERROR") /\ UNCHANGED loc
        ELSE IF Len(data) = 0
        THEN calls' = [calls EXCEPT ![r] = cs] /\ replyOnly(r, "NO_MATCH") /\ UNCHANGED loc
        ELSE /\ loc' = [loc EXCEPT ![r].selectedDocument = data[1]]
             /\ await(r, cs, "select_course", "await_selectedCourse")
  /\ late' = late \cup loser(outcome, r, "Supabase RPC", InFlight(r, "Supabase RPC"))
  /\ UNCHANGED <<variant, conversations, db, arrays, clock>>

\* the course row (15 s limit)
Chat013_SelectedCourse(r, outcome) ==
  /\ variant = "part_013"
  /\ pc[r] = "await_selectedCourse"
  /\ LET selectedCourse == IF outcome = "ok" THEN courses[loc[r].selectedDocument] ELSE <<>>
         cs == Settled(calls[r], outcome)
     IN IF Rejected(outcome)
        THEN calls' = [calls EXCEPT ![r] = cs] /\ catch500_013(r) /\ UNCHANGED loc
        ELSE IF outcome = "error" \/ Len(selectedCourse) = 0
        THEN calls' = [calls EXCEPT ![r] = cs] /\ replyOnly(r, "COURSE_LOAD_ERROR") /\ UNCHANGED loc
        ELSE /\ loc' = [loc EXCEPT ![r].reply = "COURSE:" \o selectedCourse[1].title]
             /\ await(r, cs, "insert_assistant", "await_insertAssistant")
  /\ late' = late \cup loser(outcome, r, "Fetch course", InFlight(r, "Fetch course"))
  /\ UNCHANGED <<variant, conversations, db, arrays, clock>>

\* the assistant row (no limit), then res.json({ reply, session_id })
Chat013_InsertAssistant(r, outcome) ==
  /\ variant = "part_013"
  /\ pc[r] = "await_insertAssistant"
  /\ calls' = [calls EXCEPT ![r] = Settled(@, outcome)]
  /\ chat_messages' = IF outcome = "ok"
                      THEN Append(chat_messages,
                             Row(loc[r].session_id, "assistant", loc[r].reply, loc[r].selectedDocument))
                      ELSE chat_messages
  /\ IF outcome = "threw" THEN catch500_013(r)
     ELSE /\ resp' = [resp EXCEPT ![r] = Append(@, Response(200, Body(loc[r].reply, <<>>, FALSE), loc[r].session_id))]
          /\ pc' = [pc EXCEPT ![r] = "done"]
  /\ UNCHANGED <<variant, conversations, loc, chat_events, user_memory, recent_activity, aux>>

Init013 ==
  /\ variant = "part_013"
  /\ pc = [r \in Req |-> "idle"]
  /\ loc = [r \in Req |-> NoLoc013]
  /\ conversations = << >>
  /\ chat_messages = <<>>
  /\ chat_events = <<>>
  /\ user_memory = <<>>
  /\ recent_activity = <<>>
  /\ clock = 0
  /\ arrays = <<>>
  /\ late = {}
  /\ resp = [r \in Req |-> <<>>]
  /\ calls = [r \in Req |-> <<>>]

Next013 ==
  \/ \E r \in Req :
       \/ \E message \in {Undefined, "", "almuddat"}, sid \in SessionIds \cup {Undefined} :
            Chat013_Arrive(r, message, sid)
       \/ \E outcome \in TimedOutcomes : Chat013_InsertUser(r, outcome)
       \/ \E outcome \in {"ok", "threw", "malformed"} : createEmbeddingSafe_Settle(r, outcome)
       \/ createEmbeddingSafe_Retry(r)
       \/ \E outcome \in TimedOutcomes, data \in MatchResults : Chat013_Match(r, outcome, data)
       \/ \E outcome \in TimedOutcomes : Chat013_SelectedCourse(r, outcome)
       \/ \E outcome \in DbOutcomes : Chat013_InsertAssistant(r, outcome)
  \/ \E row \in late, landed \in BOOLEAN : Late013_Settle(row, landed)
  \/ \E x \in late : Late013_Ignored(x)

Spec013 == Init013 /\ [][Next013]_vars

\* ------------------------- part_003: history truncated to the last 10 turns
\* conversationMemory maps a session id to one object { history, currentCourse };
\* history holds a reference to an array.  arrays[ref] is the array's content.
MaxReq003 == 2

\* exchanges the session s1 may have completed before the requests modelled here
PriorExchanges == 5

MaxHistory == 10

CorrectedOf(r) == "c" \o ToString(r)

\* one element too many is kept
sliceLast_one_more(array, n) ==
  IF Len(array) <= n + 1 THEN array ELSE SubSeq(array, Len(array) - n, Len(array))

\* Array.prototype.slice(-n)
sliceLast(array, n) ==
  IF Len(array) <= n THEN array ELSE SubSeq(array, Len(array) - n + 1, Len(array))

\* if (chatHistory.length > 10) the handler continues with chatHistory.slice(-10)
Truncates(array) == Len(array) > MaxHistory

\* the history a session holds after n exchanges, one request at a time
RECURSIVE historyAfter(_)
historyAfter(n) ==
  IF n = 0 THEN <<>>
  ELSE LET pushed == push(push(historyAfter(n - 1), Turn("user", "c0_" \o ToString(n))),
                          Turn("assistant", Body("a0_" \o ToString(n), <<>>, FALSE)))
       IN IF Truncates(pushed) THEN sliceLast(pushed, MaxHistory) ELSE pushed

NoLoc003 == [message |-> Undefined, session_id |-> Undefined, chatHistory |-> 0,
             correctedMessage |-> Undefined, topDocumentId |-> Null,
             selectedCourse |-> <<>>, reply |-> Undefined]

SessionData(history, currentCourse) == [history |-> history, currentCourse |-> currentCourse]

Chat003_Arrive(r, message, sid) ==
  /\ variant = "part_003"
  /\ NextToArrive(r) /\ r <= MaxReq003
  /\ IF Falsy(message)
     THEN /\ resp' = [resp EXCEPT ![r] = Append(@, Response(400, Body("NO_MESSAGE", <<>>, FALSE), Undefined))]
          /\ pc' = [pc EXCEPT ![r] = "done"]
          /\ UNCHANGED <<loc, conversations, arrays, calls>>
     ELSE LET session_id == IF Falsy(sid) THEN randomUUID(r) ELSE sid
              novel == session_id \notin DOMAIN conversations
              heap == IF novel THEN Append(arrays, <<>>) ELSE arrays
              memory == IF novel
                        THEN [s \in DOMAIN conversations \cup {session_id} |->
                                IF s = session_id THEN SessionData(Len(heap), Null)
                                ELSE conversations[s]]
                        ELSE conversations
          IN /\ arrays' = heap
             /\ conversations' = memory
             /\ loc' = [loc EXCEPT ![r] = [NoLoc003 EXCEPT !.message = message,
                                             !.session_id = session_id,
                                             !.chatHistory = memory[session_id].history]]
             /\ await(r, calls[r], "completion", "await_correct")
  /\ UNCHANGED <<variant, db, late, clock>>

\* correctUserIntent settles; createEmbedding is issued
Chat003_Corrected(r, outcome) ==
  /\ variant = "part_003"
  /\ pc[r] = "await_correct"
  /\ IF outcome # "ok"
     THEN /\ calls' = [calls EXCEPT ![r] = Settled(@, outcome)]
          /\ catch500(r)
          /\ UNCHANGED loc
     ELSE /\ loc' = [loc EXCEPT ![r].correctedMessage = CorrectedOf(r)]
          /\ await(r, Settled(calls[r], "ok"), "embedding", "await_embedding")
  /\ UNCHANGED <<variant, conversations, db, aux>>

Chat003_Embedding(r, outcome) ==
  /\ variant = "part_003"
  /\ pc[r] = "await_embedding"
  /\ IF outcome # "ok"
     THEN /\ calls' = [calls EXCEPT ![r] = Settled(@, outcome)]
          /\ catch500(r)
     ELSE await(r, Settled(calls[r], "ok"), "rpc", "await_rpc")
  /\ UNCHANGED <<variant, loc, conversations, db, aux>>

\* match_documents settles; with rows the course of the top row is fetched,
\* without rows (or with an error value: data is null) the completion is issued
Chat003_Rpc(r, outcome, data) ==
  /\ variant = "part_003"
  /\ pc[r] = "await_rpc"
  /\ IF outcome = "threw"
     THEN /\ calls' = [calls EXCEPT ![r] = Settled(@, outcome)]
          /\ catch500(r)
          /\ UNCHANGED loc
     ELSE LET results == IF outcome = "ok" THEN data ELSE <<>>
          IN IF Len(results) > 0
             THEN /\ loc' = [loc EXCEPT ![r].topDocumentId = results[1]]
                  /\ await(r, Settled(calls[r], outcome), "select_course", "await_course")
             ELSE /\ await(r, Settled(calls[r], outcome), "completion", "await_completion")
                  /\ UNCHANGED loc
  /\ UNCHANGED <<variant, conversations, db, aux>>

\* the course row settles; a row found becomes the session's currentCourse
Chat003_Course(r, outcome) ==
  /\ variant = "part_003"
  /\ pc[r] = "await_course"
  /\ IF outcome = "threw"
     THEN /\ calls' = [calls EXCEPT ![r] = Settled(@, outcome)]
          /\ catch500(r)
          /\ UNCHANGED <<loc, conversations>>
     ELSE LET course == IF outcome = "ok" THEN courses[loc[r].topDocumentId] ELSE <<>>
          IN /\ loc' = [loc EXCEPT ![r].selectedCourse = course]
             /\ conversations' = IF Len(course) > 0
                                 THEN [conversations EXCEPT ![loc[r].session_id].currentCourse = course[1]]
                                 ELSE conversations
             /\ await(r, Settled(calls[r], outcome), "completion", "await_completion")
  /\ UNCHANGED <<variant, db, aux>>

\* the RAG completion settles: the reply is built, both turns are pushed on
\* the array captured at arrival, a longer array is replaced by its last 10
\* turns, and the array the handler ends with is stored in the session object
Chat003_Completion(r, outcome) ==
  /\ variant = "part_003"
  /\ pc[r] = "await_completion"
  /\ calls' = [calls EXCEPT ![r] = Settled(@, outcome)]
  /\ IF outcome # "ok"
     THEN /\ catch500(r)
          /\ UNCHANGED <<loc, conversations, arrays>>
     ELSE LET sid == loc[r].session_id
              ref == loc[r].chatHistory
              reply == Body(ContentOf(r), loc[r].selectedCourse, FALSE)
              pushed == push(push(arrays[ref], Turn("user", loc[r].correctedMessage)),
                             Turn("assistant", reply))
              heap == [arrays EXCEPT ![ref] = pushed]
          IN /\ loc' = [loc EXCEPT ![r].reply = reply]
             /\ IF Truncates(pushed)
                THEN /\ arrays' = Append(heap, sliceLast(pushed, MaxHistory))
                     /\ conversations' = [conversations EXCEPT ![sid].history = Len(heap) + 1]
                ELSE /\ arrays' = heap
                     /\ conversations' = [conversations EXCEPT ![sid].history = ref]
             /\ resp' = [resp EXCEPT ![r] = Append(@, Response(200, reply, sid))]
             /\ pc' = [pc EXCEPT ![r] = "done"]
  /\ UNCHANGED <<variant, db, late, clock>>

Init003 ==
  /\ variant = "part_003"
  /\ pc = [r \in Req |-> "idle"]
  /\ loc = [r \in Req |-> NoLoc003]
  /\ \E n \in {0, PriorExchanges} :
       IF n = 0
       THEN conversations = << >> /\ arrays = <<>>
       ELSE /\ conversations = [s \in {"s1"} |-> SessionData(1, Null)]
            /\ arrays = <<historyAfter(n)>>
  /\ chat_messages = <<>>
  /\ chat_events = <<>>
  /\ user_memory = <<>>
  /\ recent_activity = <<>>
  /\ clock = 0
  /\ late = {}
  /\ resp = [r \in Req |-> <<>>]
  /\ calls = [r \in Req |-> <<>>]

Next003 ==
  \E r \in Req :
    \/ \E message \in {Undefined, "", MessageOf(r)}, sid \in SessionIds \cup {Undefined} :
         Chat003_Arrive(r, message, sid)
    \/ \E outcome \in {"ok", "threw", "malformed"} : Chat003_Corrected(r, outcome)
    \/ \E outcome \in {"ok", "threw", "malformed"} : Chat003_Embedding(r, outcome)
    \/ \E outcome \in {"ok", "error", "threw"}, data \in MatchResults : Chat003_Rpc(r, outcome, data)
    \/ \E outcome \in {"ok", "error", "threw"} : Chat003_Course(r, outcome)
    \/ \E outcome \in {"ok", "threw", "malformed"} : Chat003_Completion(r, outcome)

Spec003 == Init003 /\ [][Next003]_vars

\* session s1 a moment later: a request that began when the session held 10
\* turns (array 1) is suspended at its last completion with that array in
\* hand, and an exchange that finished meanwhile has pushed its two turns on
\* array 1 and registered the last 10 as array 2
InitStale003 ==
  /\ variant = "part_003"
  /\ pc = [r \in Req |-> IF r = 1 THEN "await_completion" ELSE "idle"]
  /\ loc = [r \in Req |->
              IF r = 1
              THEN [NoLoc003 EXCEPT !.message = MessageOf(1), !.session_id = "s1",
                                    !.chatHistory = 1, !.correctedMessage = CorrectedOf(1)]
              ELSE NoLoc003]
  /\ arrays = <<historyAfter(PriorExchanges) \o
                 <<Turn("user", "c0_" \o ToString(PriorExchanges + 1)),
                   Turn("assistant", Body("a0_" \o ToString(PriorExchanges + 1), <<>>, FALSE))>>,
               historyAfter(PriorExchanges + 1)>>
  /\ conversations = [s \in {"s1"} |-> SessionData(2, Null)]
  /\ chat_messages = <<>>
  /\ chat_events = <<>>
  /\ user_memory = <<>>
  /\ recent_activity = <<>>
  /\ clock = 0
  /\ late = {}
  /\ resp = [r \in Req |-> <<>>]
  /\ calls = [r \in Req |->
                IF r = 1
                THEN Issued(Settled(Issued(Settled(Issued(Settled(Issued(<<>>,
                       "completion", <<>>), "ok"), "embedding", <<>>), "ok"),
                       "rpc", <<>>), "ok"), "completion", <<>>)
                ELSE <<>>]

SpecStale003 == InitStale003 /\ [][Next003]_vars

\* ------------------------------------ part_000: classifier and threshold ladder
MaxReq000 == 1

\* the expansion may answer with up to this many search phrasings
MaxQueries == 2

\* match_threshold values, in hundredths
thresholds == <<20, 12, 8, 5, 3>>

MaxResults == 5

MemoryLimit == 5

\* rows match_documents may return for one phrasing (similarity in hundredths);
\* data is null when the call returns an error value
LadderData ==
  {Null, <<>>,
   <<[id |-> "d1", similarity |-> 30]>>,
   <<[id |-> "d2", similarity |-> 10], [id |-> "d1", similarity |-> 40]>>,
   <<[id |-> "d3", similarity |-> 25], [id |-> "d4", similarity |-> 35],
     [id |-> "d5", similarity |-> 15]>>,
   <<[id |-> "d6", similarity |-> 20], [id |-> "d7", similarity |-> 50],
     [id |-> "d1", similarity |-> 5]>>}

\* what the expansion completion may contain, line by line
ExpansionContents ==
  {lines \in UNION {[1..n -> {"q1", "q2", ""}] : n \in 0..MaxQueries} :
     \A i, j \in DOMAIN lines : (i < j /\ lines[i] # "") => lines[i] # lines[j]}

\* what the intent completion may contain
IntentContents == {"follow_up", " new_question\n", "new_question."}

\* String.prototype.trim on the contents above
trim(text) == IF text = " new_question\n" THEN "new_question" ELSE text

\* content.split("\n").map(q => q.trim()).filter(q => q.length > 0)
parseQueries(lines) == SelectSeq(lines, LAMBDA q : q # "")

\* every row is kept, repeated ids included
uniqueById_keep_all(items) == items

\* Array.from(new Map(items.map(item => [item.id, item])).values()): one
\* entry per id, at the place of the id's first row, holding its last row
uniqueById(items) ==
  LET firsts == SelectSeq([i \in 1..Len(items) |-> i],
                          LAMBDA i : \A j \in 1..(i - 1) : items[j].id # items[i].id)
      lastOf(id) == CHOOSE i \in 1..Len(items) :
                      items[i].id = id /\ \A j \in 1..Len(items) : items[j].id = id => j <= i
  IN [k \in 1..Len(firsts) |-> items[lastOf(items[firsts[k]].id)]]

\* items.sort((a, b) => b.similarity - a.similarity): stable, descending
RECURSIVE sortBySimilarity(_)
sortBySimilarity(items) ==
  IF Len(items) <= 1 THEN items
  ELSE LET rest == sortBySimilarity(Tail(items))
           x == Head(items)
           before == SelectSeq(rest, LAMBDA y : y.similarity > x.similarity)
           after == SelectSeq(rest, LAMBDA y : y.similarity <= x.similarity)
       IN before \o <<x>> \o after

\* Array.prototype.slice(0, n)
sliceFirst(array, n) == IF Len(array) <= n THEN array ELSE SubSeq(array, 1, n)

\* if (finalResults.length === 0)
noResults_never(finalResults) == FALSE

noResults(finalResults) == Len(finalResults) = 0

\* select("role, message").eq(session_id).order(desc).limit(5), then reverse()
lastMessages(rows, session_id) ==
  LET own == SelectSeq(rows, LAMBDA row : row.session_id = session_id)
      kept == sliceLast(own, MemoryLimit)
  IN [i \in 1..Len(kept) |-> Turn(kept[i].role, kept[i].message)]

NoLoc000 == [message |-> Undefined, session_id |-> Undefined, memoryMessages |-> <<>>,
             intentType |-> "new_question", activeCourseId |-> Null, contextText |-> <<>>,
             selectedCourse |-> <<>>, queries |-> Undefined, tier |-> 0, query |-> 0,
             allResults |-> <<>>, finalResults |-> <<>>, reply |-> Undefined]

\* res.status(...).json({ error }): the body has no reply field
ErrorResponse(status, error) ==
  [status |-> status, reply |-> Undefined, session_id |-> Undefined, error |-> error]

catch500_000(r) ==
  /\ resp' = [resp EXCEPT ![r] = Append(@, ErrorResponse(500, "SERVER_ERROR_000"))]
  /\ pc' = [pc EXCEPT ![r] = "done"]

\* an upstream call with its arguments
awaitWith(r, cs, kind, arg, label) ==
  /\ calls' = [calls EXCEPT ![r] = Issued(cs, kind, arg)]
  /\ pc' = [pc EXCEPT ![r] = label]
  /\ UNCHANGED resp

\* the code after the intent is known, up to its first await
route(r, cs, intentType, session_id) ==
  IF intentType = "follow_up" /\ ~Falsy(session_id)
  THEN await(r, cs, "select_last_course", "await_lastCourse")
  ELSE IF intentType = "new_question"
       THEN awaitWith(r, cs, "completion", <<"expansion">>, "await_expansion")
       ELSE awaitWith(r, cs, "completion", <<"final">>, "await_completion")

Chat000_Arrive(r, message, sid) ==
  /\ variant = "part_000"
  /\ NextToArrive(r)
  /\ IF Falsy(message)
     THEN /\ resp' = [resp EXCEPT ![r] = Append(@, ErrorResponse(400, "NO_QUESTION"))]
          /\ pc' = [pc EXCEPT ![r] = "done"]
          /\ UNCHANGED <<loc, calls>>
     ELSE /\ loc' = [loc EXCEPT ![r] = [NoLoc000 EXCEPT !.message = message, !.session_id = sid]]
          /\ IF ~Falsy(sid)
             THEN await(r, calls[r], "insert_user", "await_insertUser")
             ELSE route(r, calls[r], "new_question", sid)
  /\ UNCHANGED <<variant, conversations, db, aux>>

Chat000_InsertUser(r, outcome) ==
  /\ variant = "part_000"
  /\ pc[r] = "await_insertUser"
  /\ chat_messages' = IF outcome = "ok"
                      THEN Append(chat_messages, Row(loc[r].session_id, "user", loc[r].message, Null))
                      ELSE chat_messages
  /\ IF outcome = "threw"
     THEN /\ calls' = [calls EXCEPT ![r] = Settled(@, outcome)]
          /\ catch500_000(r)
     ELSE await(r, Settled(calls[r], outcome), "select_memory", "await_memory")
  /\ UNCHANGED <<variant, conversations, loc, chat_events, user_memory, recent_activity, aux>>

\* the last five messages of the session; with any, the intent is asked for
Chat000_Memory(r, outcome) ==
  /\ variant = "part_000"
  /\ pc[r] = "await_memory"
  /\ IF outcome = "threw"
     THEN /\ calls' = [calls EXCEPT ![r] = Settled(@, outcome)]
          /\ catch500_000(r)
          /\ UNCHANGED loc
     ELSE LET memoryMessages == IF outcome = "ok"
                                THEN lastMessages(chat_messages, loc[r].session_id) ELSE <<>>
          IN /\ loc' = [loc EXCEPT ![r].memoryMessages = memoryMessages]
             /\ IF Len(memoryMessages) > 0
                THEN awaitWith(r, Settled(calls[r], outcome), "completion", <<"intent">>, "await_intent")
                ELSE route(r, Settled(calls[r], outcome), "new_question", loc[r].session_id)
  /\ UNCHANGED <<variant, conversations, db, aux>>

Chat000_Intent(r, outcome, content) ==
  /\ variant = "part_000"
  /\ pc[r] = "await_intent"
  /\ IF outcome # "ok"
     THEN /\ calls' = [calls EXCEPT ![r] = Settled(@, outcome)]
          /\ catch500_000(r)
          /\ UNCHANGED loc
     ELSE /\ loc' = [loc EXCEPT ![r].intentType = trim(content)]
          /\ route(r, Settled(calls[r], "ok"), trim(content), loc[r].session_id)
  /\ UNCHANGED <<variant, conversations, db, aux>>

\* follow-up: the session's last course id; with one, its document is read
Chat000_LastCourse(r, outcome) ==
  /\ variant = "part_000"
  /\ pc[r] = "await_lastCourse"
  /\ IF outcome = "threw"
     THEN /\ calls' = [calls EXCEPT ![r] = Settled(@, outcome)]
          /\ catch500_000(r)
          /\ UNCHANGED loc
     ELSE LET lastCourse == IF outcome = "ok"
                            THEN lastCourseRows(chat_messages, loc[r].session_id) ELSE <<>>
              activeCourseId == IF Len(lastCourse) > 0 THEN lastCourse[1].course_id ELSE Null
          IN /\ loc' = [loc EXCEPT ![r].activeCourseId = activeCourseId]
             /\ IF activeCourseId # Null
                THEN await(r, Settled(calls[r], outcome), "select_document", "await_document")
                ELSE awaitWith(r, Settled(calls[r], outcome), "completion", <<"final">>, "await_completion")
  /\ UNCHANGED <<variant, conversations, db, aux>>

Chat000_Document(r, outcome) ==
  /\ variant = "part_000"
  /\ pc[r] = "await_document"
  /\ IF outcome = "threw"
     THEN /\ calls' = [calls EXCEPT ![r] = Settled(@, outcome)]
          /\ catch500_000(r)
          /\ UNCHANGED loc
     ELSE /\ loc' = [loc EXCEPT ![r].contextText =
                       IF outcome = "ok" THEN <<loc[r].activeCourseId>> ELSE <<>>]
          /\ awaitWith(r, Settled(calls[r], outcome), "completion", <<"final">>, "await_completion")
  /\ UNCHANGED <<variant, conversations, db, aux>>

\* the first embedding of the ladder; without any phrasing both loops run no
\* call and finalResults stays empty
startLadder(r, cs, queries) ==
  IF Len(queries) = 0
  THEN IF noResults(<<>>)
       THEN /\ calls' = [calls EXCEPT ![r] = cs]
            /\ replyOnly(r, "NOT_AVAILABLE")
       ELSE awaitWith(r, cs, "completion", <<"final">>, "await_completion")
  ELSE awaitWith(r, cs, "embedding", <<thresholds[1], queries[1]>>, "await_ladderEmbedding")

\* the expansion settles: its lines become the search phrasings
Chat000_Expansion(r, outcome, lines) ==
  /\ variant = "part_000"
  /\ pc[r] = "await_expansion"
  /\ IF outcome # "ok"
     THEN /\ calls' = [calls EXCEPT ![r] = Settled(@, outcome)]
          /\ catch500_000(r)
          /\ UNCHANGED loc
     ELSE LET queries == parseQueries(lines)
          IN /\ loc' = [loc EXCEPT ![r].queries = queries, ![r].tier = 1, ![r].query = 1]
             /\ startLadder(r, Settled(calls[r], "ok"), queries)
  /\ UNCHANGED <<variant, conversations, db, aux>>

\* openai.embeddings.create for the current phrasing settles; match_documents
\* is called with the current threshold
Chat000_LadderEmbedding(r, outcome) ==
  /\ variant = "part_000"
  /\ pc[r] = "await_ladderEmbedding"
  /\ IF outcome # "ok"
     THEN /\ calls' = [calls EXCEPT ![r] = Settled(@, outcome)]
          /\ catch500_000(r)
     ELSE awaitWith(r, Settled(calls[r], "ok"), "rpc",
                    <<thresholds[loc[r].tier], loc[r].queries[loc[r].query]>>, "await_ladderRpc")
  /\ UNCHANGED <<variant, loc, conversations, db, aux>>

\* match_documents settles.  Inside a tier the next phrasing follows; after
\* the tier's last phrasing the rows are deduplicated and sorted, and the
\* ladder stops at the first tier with a row
Chat000_LadderRpc(r, outcome, data) ==
  /\ variant = "part_000"
  /\ pc[r] = "await_ladderRpc"
  /\ IF outcome = "threw"
     THEN /\ calls' = [calls EXCEPT ![r] = Settled(@, outcome)]
          /\ catch500_000(r)
          /\ UNCHANGED loc
     ELSE LET rows == IF data # Null /\ Len(data) > 0 THEN data ELSE <<>>
              cs == Settled(calls[r], IF Len(rows) > 0 THEN "ok" ELSE "empty")
              allResults == loc[r].allResults \o rows
              tier == loc[r].tier
              queries == loc[r].queries
              uniqueResults == sortBySimilarity(uniqueById(allResults))
              finalResults == sliceFirst(uniqueResults, MaxResults)
          IN IF loc[r].query < Len(queries)
             THEN /\ loc' = [loc EXCEPT ![r].allResults = allResults, ![r].query = @ + 1]
                  /\ awaitWith(r, cs, "embedding", <<thresholds[tier], queries[loc[r].query + 1]>>,
                               "await_ladderEmbedding")
             ELSE IF Len(uniqueResults) > 0
                  THEN /\ loc' = [loc EXCEPT ![r].allResults = allResults,
                                             ![r].finalResults = finalResults,
                                             ![r].selectedCourse = <<finalResults[1]>>,
                                             ![r].contextText = [i \in 1..Len(finalResults) |-> finalResults[i].id]]
                       /\ awaitWith(r, cs, "completion", <<"final">>, "await_completion")
                  ELSE IF tier < Len(thresholds)
                       THEN /\ loc' = [loc EXCEPT ![r].allResults = <<>>, ![r].tier = tier + 1, ![r].query = 1]
                            /\ awaitWith(r, cs, "embedding", <<thresholds[tier + 1], queries[1]>>,
                                         "await_ladderEmbedding")
                       ELSE /\ loc' = [loc EXCEPT ![r].allResults = <<>>]
                            /\ IF noResults(<<>>)
                               THEN /\ calls' = [calls EXCEPT ![r] = cs]
                                    /\ replyOnly(r, "NOT_AVAILABLE")
                               ELSE awaitWith(r, cs, "completion", <<"final">>, "await_completion")
  /\ UNCHANGED <<variant, conversations, db, aux>>

\* the final completion settles; with a session the reply is stored first
Chat000_Completion(r, outcome) ==
  /\ variant = "part_000"
  /\ pc[r] = "await_completion"
  /\ IF outcome = "threw"
     THEN /\ calls' = [calls EXCEPT ![r] = Settled(@, outcome)]
          /\ catch500_000(r)
          /\ UNCHANGED loc
     ELSE LET reply == IF outcome = "ok" THEN ContentOf(r) ELSE Undefined
          IN /\ loc' = [loc EXCEPT ![r].reply = reply]
             /\ IF ~Falsy(loc[r].session_id)
                THEN await(r, Settled(calls[r], outcome), "insert_assistant", "await_insertAssistant")
                ELSE /\ calls' = [calls EXCEPT ![r] = Settled(@, outcome)]
                     /\ resp' = [resp EXCEPT ![r] = Append(@, Response(200, Body(reply, <<>>, FALSE), Undefined))]
                     /\ pc' = [pc EXCEPT ![r] = "done"]
  /\ UNCHANGED <<variant, conversations, db, aux>>

Chat000_InsertAssistant(r, outcome) ==
  /\ variant = "part_000"
  /\ pc[r] = "await_insertAssistant"
  /\ calls' = [calls EXCEPT ![r] = Settled(@, outcome)]
  /\ LET course_id == IF loc[r].intentType = "new_question" /\ Len(loc[r].selectedCourse) > 0
                      THEN loc[r].selectedCourse[1].id
                      ELSE loc[r].activeCourseId
     IN chat_messages' = IF outcome = "ok"
                         THEN Append(chat_messages, Row(loc[r].session_id, "assistant", loc[r].reply, course_id))
                         ELSE chat_messages
  /\ IF outcome = "threw"
     THEN catch500_000(r)
     ELSE /\ resp' = [resp EXCEPT ![r] = Append(@, Response(200, Body(loc[r].reply, <<>>, FALSE), Undefined))]
          /\ pc' = [pc EXCEPT ![r] = "done"]
  /\ UNCHANGED <<variant, conversations, loc, chat_events, user_memory, recent_activity, aux>>

\* the table may already hold an earlier exchange of session s1
Init000 ==
  /\ variant = "part_000"
  /\ pc = [r \in Req |-> "idle"]
  /\ loc = [r \in Req |-> NoLoc000]
  /\ conversations = << >>
  /\ chat_messages \in {<<>>, <<Row("s1", "user", "m0", Null), Row("s1", "assistant", "a0", "d1")>>}
  /\ chat_events = <<>>
  /\ user_memory = <<>>
  /\ recent_activity = <<>>
  /\ clock = 0
  /\ arrays = <<>>
  /\ late = {}
  /\ resp = [r \in Req |-> <<>>]
  /\ calls = [r \in Req |-> <<>>]

Next000 ==
  \E r \in {q \in Req : q <= MaxReq000} :
    \/ \E message \in {Undefined, "", MessageOf(r)}, sid \in SessionIds \cup {Undefined} :
         Chat000_Arrive(r, message, sid)
    \/ \E outcome \in DbOutcomes : Chat000_InsertUser(r, outcome)
    \/ \E outcome \in DbOutcomes : Chat000_Memory(r, outcome)
    \/ \E outcome \in {"ok", "threw", "malformed"}, content \in IntentContents :
         Chat000_Intent(r, outcome, content)
    \/ \E outcome \in DbOutcomes : Chat000_LastCourse(r, outcome)
    \/ \E outcome \in DbOutcomes : Chat000_Document(r, outcome)
    \/ \E outcome \in {"ok", "threw", "malformed"}, lines \in ExpansionContents :
         Chat000_Expansion(r, outcome, lines)
    \/ \E outcome \in {"ok", "threw", "malformed"} : Chat000_LadderEmbedding(r, outcome)
    \/ \E outcome \in {"ok", "threw"}, data \in LadderData : Chat000_LadderRpc(r, outcome, data)
    \/ \E outcome \in {"ok", "threw", "malformed"} : Chat000_Completion(r, outcome)
    \/ \E outcome \in DbOutcomes : Chat000_InsertAssistant(r, outcome)

Spec000 == Init000 /\ [][Next000]_vars

\* two requests of session s1 under way at once, the session having an earlier
\* exchange about document d1; every call succeeds, one phrasing, one answer
\* of match_documents
MaxReqRace == 2

InitRace000 ==
  /\ Init000
  /\ chat_messages # <<>>

NextRace000 ==
  \E r \in {q \in Req : q <= MaxReqRace} :
    \/ Chat000_Arrive(r, MessageOf(r), "s1")
    \/ Chat000_InsertUser(r, "ok")
    \/ Chat000_Memory(r, "ok")
    \/ \E content \in {"follow_up", " new_question\n"} : Chat000_Intent(r, "ok", content)
    \/ Chat000_LastCourse(r, "ok")
    \/ Chat000_Document(r, "ok")
    \/ Chat000_Expansion(r, "ok", <<"q1">>)
    \/ Chat000_LadderEmbedding(r, "ok")
    \/ \E data \in {<<>>, <<[id |-> "d3", similarity |-> 25], [id |-> "d4", similarity |-> 35]>>} :
         Chat000_LadderRpc(r, "ok", data)
    \/ Chat000_Completion(r, "ok")
    \/ \E outcome \in {"ok", "error"} : Chat000_InsertAssistant(r, outcome)

SpecRace000 == InitRace000 /\ [][NextRace000]_vars

\* ------------------------------- server.js 688-806: the formatting of a reply
\* A reply is a sequence of tokens: a tag, a newline, a blank or a piece of
\* text without any of them.
MaxTokens == 3

ReplyTokens == {"t", "\n", " ", "<br>", "<h1>"}

Replies == UNION {[1..n -> ReplyTokens] : n \in 0..MaxTokens}

\* replace(/<h1.*?>/gi, "<strong>") ... replace(/<\/h3>/gi, "</strong>")
replaceHeadings(reply) ==
  [i \in 1..Len(reply) |->
     IF reply[i] \in {"<h1>", "<h2>", "<h3>"} THEN "<strong>"
     ELSE IF reply[i] \in {"</h1>", "</h2>", "</h3>"} THEN "</strong>"
     ELSE reply[i]]

\* replace(/\n{2,}/g, "\n")
collapseNewlines(reply) ==
  LET kept == SelectSeq([i \in 1..Len(reply) |-> i],
                        LAMBDA i : ~(reply[i] = "\n" /\ i > 1 /\ reply[i - 1] = "\n"))
  IN [k \in 1..Len(kept) |-> reply[kept[k]]]

\* String.prototype.trim
trimReply(reply) ==
  LET solid == {i \in 1..Len(reply) : reply[i] \notin {"\n", " "}}
  IN IF solid = {} THEN <<>>
     ELSE SubSeq(reply, CHOOSE i \in solid : \A j \in solid : i <= j,
                        CHOOSE i \in solid : \A j \in solid : j <= i)

\* replace(/\n/g, "<br>")
newlinesToBr(reply) == [i \in 1..Len(reply) |-> IF reply[i] = "\n" THEN "<br>" ELSE reply[i]]

\* replace(/<br><br>/g, "<br>"): pairs are taken from the left, once
RECURSIVE halveBr(_)
halveBr(reply) ==
  IF Len(reply) < 2 THEN reply
  ELSE IF reply[1] = "<br>" /\ reply[2] = "<br>"
       THEN <<"<br>">> \o halveBr(SubSeq(reply, 3, Len(reply)))
       ELSE <<reply[1]>> \o halveBr(Tail(reply))

cleanHTML(reply) ==
  halveBr(newlinesToBr(trimReply(collapseNewlines(replaceHeadings(reply)))))

\* reply += `<br><a href="${course.url}" ... class="course-btn">${course.title}</a>`
RECURSIVE buttonTokens(_)
buttonTokens(rows) ==
  IF Len(rows) = 0 THEN <<>>
  ELSE (IF ~Falsy(rows[1].url)
        THEN <<"<br>", "<a href=" \o rows[1].url \o " class=course-btn>" \o rows[1].title \o "</a>">>
        ELSE <<>>) \o buttonTokens(Tail(rows))

\* if (relatedCourses.length > 0) { reply += heading; forEach ... }
appendButtons(reply, relatedCourses) ==
  IF Len(relatedCourses) > 0
  THEN reply \o <<"<br>", "<strong style=color:#c40000;>MAY_STUDY</strong>">> \o buttonTokens(relatedCourses)
  ELSE reply

\* the template literal around the reply, line by line
StyleLines ==
  <<"<style>", ".course-btn{", "display:inline-block;", "padding:6px 10px;",
    "background:#c40000;", "color:#fff;", "font-size:12px;", "border-radius:6px;",
    "text-decoration:none;", "margin-top:4px;", "}", ".chat-wrapper{",
    "font-size:14px !important;", "line-height:1.6 !important;", "}",
    ".chat-wrapper *{", "font-size:14px !important;", "}", "</style>",
    "<div class=chat-wrapper>">>

RECURSIVE lines(_)
lines(texts) == IF Len(texts) = 0 THEN <<>> ELSE <<"\n", texts[1]>> \o lines(Tail(texts))

wrap(reply) == lines(StyleLines) \o <<"\n">> \o reply \o <<"\n", "</div>", "\n">>

\* the formatting step of the handler: buttons, cleanHTML, wrapper
format(reply, relatedCourses) == wrap(cleanHTML(appendButtons(reply, relatedCourses)))

NoLocFormat == [reply |-> <<>>, relatedCourses |-> <<>>]

\* the step is run on the reply, and again on what it returned
Format_Step(r) ==
  /\ variant = "server_636"
  /\ pc[r] \in {"raw", "formatted"}
  /\ LET out == format(loc[r].reply, loc[r].relatedCourses)
     IN /\ loc' = [loc EXCEPT ![r].reply = out]
        /\ resp' = [resp EXCEPT ![r] = Append(@, out)]
  /\ pc' = [pc EXCEPT ![r] = IF pc[r] = "raw" THEN "formatted" ELSE "formatted_twice"]
  /\ UNCHANGED <<variant, conversations, db, aux, calls>>

\* cleanHTML alone, on a reply and again on what it returned
CleanHTML_Step(r) ==
  /\ variant = "server_636"
  /\ pc[r] \in {"raw", "cleaned"}
  /\ LET out == cleanHTML(loc[r].reply)
     IN /\ loc' = [loc EXCEPT ![r].reply = out]
        /\ resp' = [resp EXCEPT ![r] = Append(@, out)]
  /\ pc' = [pc EXCEPT ![r] = IF pc[r] = "raw" THEN "cleaned" ELSE "cleaned_twice"]
  /\ UNCHANGED <<variant, conversations, db, aux, calls>>

InitFormat ==
  /\ variant = "server_636"
  /\ pc = [r \in Req |-> IF r = 1 THEN "raw" ELSE "idle"]
  /\ \E reply \in Replies, relatedCourses \in CourseRows :
       loc = [r \in Req |-> IF r = 1
                            THEN [reply |-> reply, relatedCourses |-> relatedCourses]
                            ELSE NoLocFormat]
  /\ conversations = << >>
  /\ chat_messages = <<>>
  /\ chat_events = <<>>
  /\ user_memory = <<>>
  /\ recent_activity = <<>>
  /\ clock = 0
  /\ arrays = <<>>
  /\ late = {}
  /\ resp = [r \in Req |-> <<>>]
  /\ calls = [r \in Req |-> <<>>]

NextFormat ==
  \E r \in Req :
    \/ Format_Step(r)
    \/ CleanHTML_Step(r)

SpecFormat == InitFormat /\ [][NextFormat]_vars

\* --------------------------- part_014: intent as JSON, a linear chain of awaits
MaxReq014 == 1

\* what the intent completion may contain: a JSON object, the JSON text
\* null, or text that is no JSON
IntentJson == {"{domain,level}", "null", "not json"}

\* JSON.parse on the contents above: whether it throws a SyntaxError, and
\* else its value, <<object>> or << >> for null
JSON_parse_throws(content) == content \notin {"{domain,level}", "null"}

JSON_parse(content) ==
  IF content = "{domain,level}" THEN <<[domain |-> "web", level |-> "beginner"]>> ELSE <<>>

NoLoc014 == [message |-> Undefined, session_id |-> Undefined, user_id |-> Undefined,
             intent |-> Undefined, reply |-> Undefined, learningPath |-> Undefined,
             followUp |-> Undefined]

\* a statement that throws between two awaits
thrown(cs, what) == Append(cs, [kind |-> what, arg |-> <<>>, outcome |-> "threw"])

Chat014_Arrive(r, message, sid, uid) ==
  /\ variant = "part_014"
  /\ NextToArrive(r) /\ r <= MaxReq014
  /\ IF Falsy(message)
     THEN /\ resp' = [resp EXCEPT ![r] = Append(@, Response(400, Body("NO_MESSAGE", <<>>, FALSE), Undefined))]
          /\ pc' = [pc EXCEPT ![r] = "done"]
          /\ UNCHANGED <<loc, conversations, calls>>
     ELSE LET session_id == IF Falsy(sid) THEN randomUUID(r) ELSE sid
              user_id == IF Falsy(uid) THEN "anonymous" ELSE uid
              convs == setupHistory(conversations, session_id)
          IN /\ conversations' = [convs EXCEPT ![session_id] = push(@, Turn("user", message))]
             /\ loc' = [loc EXCEPT ![r] = [NoLoc014 EXCEPT !.message = message,
                                             !.session_id = session_id, !.user_id = user_id]]
             /\ awaitWith(r, calls[r], "completion", <<"detectIntent">>, "await_intent")
  /\ UNCHANGED <<variant, db, aux>>

\* detectIntent: the completion settles and its content is parsed
Chat014_Intent(r, outcome, content) ==
  /\ variant = "part_014"
  /\ pc[r] = "await_intent"
  /\ IF outcome # "ok"
     THEN /\ calls' = [calls EXCEPT ![r] = Settled(@, outcome)]
          /\ catch500(r)
          /\ UNCHANGED loc
     ELSE IF JSON_parse_throws(content)
          THEN /\ calls' = [calls EXCEPT ![r] = thrown(Settled(@, "ok"), "JSON.parse")]
               /\ catch500(r)
               /\ UNCHANGED loc
          ELSE /\ loc' = [loc EXCEPT ![r].intent = JSON_parse(content)]
               /\ awaitWith(r, Settled(calls[r], "ok"), "embedding", <<"saveVectorMemory">>, "await_memoryEmbedding")
  /\ UNCHANGED <<variant, conversations, db, aux>>

\* saveVectorMemory: the embedding settles, the row is inserted
Chat014_MemoryEmbedding(r, outcome) ==
  /\ variant = "part_014"
  /\ pc[r] = "await_memoryEmbedding"
  /\ IF outcome # "ok"
     THEN /\ calls' = [calls EXCEPT ![r] = Settled(@, outcome)]
          /\ catch500(r)
     ELSE await(r, Settled(calls[r], "ok"), "insert_memory", "await_memoryInsert")
  /\ UNCHANGED <<variant, loc, conversations, db, aux>>

\* the insert settles (its error value is not read); the main completion is issued
Chat014_MemoryInsert(r, outcome) ==
  /\ variant = "part_014"
  /\ pc[r] = "await_memoryInsert"
  /\ user_memory' = IF outcome = "ok"
                    THEN Append(user_memory, [user_id |-> loc[r].user_id, message |-> loc[r].message])
                    ELSE user_memory
  /\ IF outcome = "threw"
     THEN /\ calls' = [calls EXCEPT ![r] = Settled(@, outcome)]
          /\ catch500(r)
     ELSE awaitWith(r, Settled(calls[r], outcome), "completion", conversations[loc[r].session_id],
                    "await_completion")
  /\ UNCHANGED <<variant, loc, conversations, chat_messages, chat_events, recent_activity, aux>>

\* the main completion settles; intent.domain is read for the learning path
Chat014_Completion(r, outcome) ==
  /\ variant = "part_014"
  /\ pc[r] = "await_completion"
  /\ IF outcome # "ok"
     THEN /\ calls' = [calls EXCEPT ![r] = Settled(@, outcome)]
          /\ catch500(r)
          /\ UNCHANGED loc
     ELSE /\ loc' = [loc EXCEPT ![r].reply = ContentOf(r)]
          /\ IF loc[r].intent = <<>>
             THEN /\ calls' = [calls EXCEPT ![r] = thrown(Settled(@, "ok"), "intent.domain")]
                  /\ catch500(r)
             ELSE awaitWith(r, Settled(calls[r], "ok"), "completion", <<"generateLearningPath">>,
                            "await_learningPath")
  /\ UNCHANGED <<variant, conversations, db, aux>>

Chat014_LearningPath(r, outcome) ==
  /\ variant = "part_014"
  /\ pc[r] = "await_learningPath"
  /\ IF outcome # "ok"
     THEN /\ calls' = [calls EXCEPT ![r] = Settled(@, outcome)]
          /\ catch500(r)
          /\ UNCHANGED loc
     ELSE /\ loc' = [loc EXCEPT ![r].learningPath = "PATH"]
          /\ awaitWith(r, Settled(calls[r], "ok"), "completion", <<"generateFollowUp">>, "await_followUp")
  /\ UNCHANGED <<variant, conversations, db, aux>>

Chat014_FollowUp(r, outcome) ==
  /\ variant = "part_014"
  /\ pc[r] = "await_followUp"
  /\ IF outcome # "ok"
     THEN /\ calls' = [calls EXCEPT ![r] = Settled(@, outcome)]
          /\ catch500(r)
          /\ UNCHANGED loc
     ELSE /\ loc' = [loc EXCEPT ![r].followUp = "FOLLOW_UP"]
          /\ awaitWith(r, Settled(calls[r], "ok"), "embedding", <<"recommendCourses">>, "await_embedding")
  /\ UNCHANGED <<variant, conversations, db, aux>>

Chat014_Embedding(r, outcome) ==
  /\ variant = "part_014"
  /\ pc[r] = "await_embedding"
  /\ IF outcome # "ok"
     THEN /\ calls' = [calls EXCEPT ![r] = Settled(@, outcome)]
          /\ catch500(r)
     ELSE await(r, Settled(calls[r], "ok"), "rpc", "await_rpc")
  /\ UNCHANGED <<variant, loc, conversations, db, aux>>

\* smart_course_search settles; data || []; every course gets a button; the
\* reply is cleaned, wrapped and sent
Chat014_Rpc(r, outcome, data) ==
  /\ variant = "part_014"
  /\ pc[r] = "await_rpc"
  /\ calls' = [calls EXCEPT ![r] = Settled(@, outcome)]
  /\ IF outcome = "threw"
     THEN catch500(r)
     ELSE LET courseList == IF outcome = "ok" THEN data ELSE <<>>
              text == <<loc[r].reply, loc[r].learningPath, loc[r].followUp>>
          IN /\ resp' = [resp EXCEPT ![r] = Append(@, Response(200, Body(text, courseList, TRUE), loc[r].session_id))]
             /\ pc' = [pc EXCEPT ![r] = "done"]
  /\ UNCHANGED <<variant, loc, conversations, db, aux>>

Init014 ==
  /\ variant = "part_014"
  /\ pc = [r \in Req |-> "idle"]
  /\ loc = [r \in Req |-> NoLoc014]
  /\ conversations = << >>
  /\ chat_messages = <<>>
  /\ chat_events = <<>>
  /\ user_memory = <<>>
  /\ recent_activity = <<>>
  /\ clock = 0
  /\ arrays = <<>>
  /\ late = {}
  /\ resp = [r \in Req |-> <<>>]
  /\ calls = [r \in Req |-> <<>>]

Next014 ==
  \E r \in Req :
    \/ \E message \in {Undefined, "", MessageOf(r)}, sid \in SessionIds \cup {Undefined},
          uid \in {Undefined, "u1"} :
         Chat014_Arrive(r, message, sid, uid)
    \/ \E outcome \in {"ok", "threw", "malformed"}, content \in IntentJson :
         Chat014_Intent(r, outcome, content)
    \/ \E outcome \in {"ok", "threw", "malformed"} : Chat014_MemoryEmbedding(r, outcome)
    \/ \E outcome \in DbOutcomes : Chat014_MemoryInsert(r, outcome)
    \/ \E outcome \in {"ok", "threw", "malformed"} : Chat014_Completion(r, outcome)
    \/ \E outcome \in {"ok", "threw", "malformed"} : Chat014_LearningPath(r, outcome)
    \/ \E outcome \in {"ok", "threw", "malformed"} : Chat014_FollowUp(r, outcome)
    \/ \E outcome \in {"ok", "threw", "malformed"} : Chat014_Embedding(r, outcome)
    \/ \E outcome \in DbOutcomes, data \in CourseRows : Chat014_Rpc(r, outcome, data)

Spec014 == Init014 /\ [][Next014]_vars

\* --------------------------------- the handlers whose catch sends the fixed 500
\* part_002 / part_010 or part_014, one of them running
InitCatch == InitMem \/ Init014

NextCatch == NextMem \/ Next014

SpecCatch == InitCatch /\ [][NextCatch]_vars

\* ------------------------- part_009 188-323: /chat with gated course links
MaxReq009 == 2

\* what the classifier's completion may contain: a JSON object with an intent,
\* one without, the JSON text null, or text that is no JSON
IntentOutputs009 ==
  {"{intent:learning_intent}", "{intent:comparison}", "{intent:other}", "{}", "null", "not json"}

\* try { return JSON.parse(content).intent } catch { return "other" }
detectIntent009(content) ==
  CASE content = "{intent:learning_intent}" -> "learning_intent"
    [] content = "{intent:comparison}" -> "comparison"
    [] content = "{intent:other}" -> "other"
    [] content = "{}" -> Undefined
    [] OTHER -> "other"

\* rows match_courses may return for match_count: 2 (similarity in
\* hundredths); data is null with an error value
MatchCourses ==
  {Null, <<>>,
   <<[title |-> "c1", similarity |-> 70]>>,
   <<[title |-> "c1", similarity |-> 60], [title |-> "c2", similarity |-> 65]>>,
   <<[title |-> "c1", similarity |-> 59], [title |-> "c2", similarity |-> 80]>>,
   <<[title |-> "c1", similarity |-> 30], [title |-> "c2", similarity |-> 10]>>}

\* c => c.similarity >= 0.60
meetsMinimum_half(c) == c.similarity >= 50

meetsMinimum(c) == c.similarity >= 60

\* data.filter(...).sort((a, b) => b.similarity - a.similarity)
rankCourses(data) == sortBySimilarity(SelectSeq(data, meetsMinimum))

\* if (intent === "learning_intent" || intent === "comparison")
wantsCourses_always(intent) == TRUE

wantsCourses(intent) == intent \in {"learning_intent", "comparison"}

NoLoc009 == [message |-> Undefined, session_id |-> Undefined, reply |-> Undefined,
             intent |-> Undefined]

\* res.json({ reply, session_id }) with the links of the courses appended
reply009(r, cs, found) ==
  /\ calls' = [calls EXCEPT ![r] = cs]
  /\ resp' = [resp EXCEPT ![r] = Append(@, Response(200, Body(loc[r].reply, found, FALSE),
                                                    loc[r].session_id))]
  /\ pc' = [pc EXCEPT ![r] = "done"]

Chat009_Arrive(r, message, sid) ==
  /\ variant = "part_009"
  /\ NextToArrive(r)
  /\ IF Falsy(message)
     THEN /\ resp' = [resp EXCEPT ![r] = Append(@, Response(400, Body("NO_MESSAGE", <<>>, FALSE), Undefined))]
          /\ pc' = [pc EXCEPT ![r] = "done"]
          /\ UNCHANGED <<loc, conversations, calls>>
     ELSE LET session_id == IF Falsy(sid) THEN randomUUID(r) ELSE sid
              convs == setupHistory(conversations, session_id)
          IN /\ conversations' = [convs EXCEPT ![session_id] = push(@, Turn("user", message))]
             /\ loc' = [loc EXCEPT ![r] = [NoLoc009 EXCEPT !.message = message,
                                             !.session_id = session_id]]
             /\ awaitWith(r, calls[r], "completion", <<"detectIntent">>, "await_intent")
  /\ UNCHANGED <<variant, db, aux>>

\* detectIntent: a rejected call leaves the function, anything the call
\* resolved with is read inside the try block
Chat009_Intent(r, outcome, content) ==
  /\ variant = "part_009"
  /\ pc[r] = "await_intent"
  /\ IF outcome = "threw"
     THEN /\ calls' = [calls EXCEPT ![r] = Settled(@, outcome)]
          /\ catch500(r)
          /\ UNCHANGED loc
     ELSE /\ loc' = [loc EXCEPT ![r].intent =
                       IF outcome = "ok" THEN detectIntent009(content) ELSE "other"]
          /\ awaitWith(r, Settled(calls[r], outcome), "completion",
                       conversations[loc[r].session_id], "await_completion")
  /\ UNCHANGED <<variant, conversations, db, aux>>

\* the answer settles: the assistant turn is pushed, and the courses are
\* searched when the intent asks for them
Chat009_Completion(r, outcome) ==
  /\ variant = "part_009"
  /\ pc[r] = "await_completion"
  /\ IF outcome # "ok"
     THEN /\ calls' = [calls EXCEPT ![r] = Settled(@, outcome)]
          /\ catch500(r)
          /\ UNCHANGED <<loc, conversations>>
     ELSE /\ conversations' = [conversations EXCEPT ![loc[r].session_id] =
                                 push(@, Turn("assistant", ContentOf(r)))]
          /\ loc' = [loc EXCEPT ![r].reply = ContentOf(r)]
          /\ IF wantsCourses(loc[r].intent)
             THEN awaitWith(r, Settled(calls[r], "ok"), "embedding", <<"searchCourses">>,
                            "await_searchEmbedding")
             ELSE /\ calls' = [calls EXCEPT ![r] = Settled(@, "ok")]
                  /\ resp' = [resp EXCEPT ![r] = Append(@, Response(200, Body(ContentOf(r), <<>>, FALSE),
                                                                    loc[r].session_id))]
                  /\ pc' = [pc EXCEPT ![r] = "done"]
  /\ UNCHANGED <<variant, db, aux>>

\* searchCourses: createEmbedding settles; its failure is caught: return []
Chat009_SearchEmbedding(r, outcome) ==
  /\ variant = "part_009"
  /\ pc[r] = "await_searchEmbedding"
  /\ IF outcome # "ok"
     THEN reply009(r, Settled(calls[r], outcome), <<>>)
     ELSE awaitWith(r, Settled(calls[r], "ok"), "rpc", <<"match_courses">>, "await_searchRpc")
  /\ UNCHANGED <<variant, loc, conversations, db, aux>>

\* searchCourses: match_courses settles; if (error || !data) return []
Chat009_SearchRpc(r, outcome, data) ==
  /\ variant = "part_009"
  /\ pc[r] = "await_searchRpc"
  /\ reply009(r, Settled(calls[r], outcome),
              IF outcome # "ok" \/ data = Null THEN <<>> ELSE rankCourses(data))
  /\ UNCHANGED <<variant, loc, conversations, db, aux>>

Init009 ==
  /\ variant = "part_009"
  /\ pc = [r \in Req |-> "idle"]
  /\ loc = [r \in Req |-> NoLoc009]
  /\ conversations = << >>
  /\ chat_messages = <<>>
  /\ chat_events = <<>>
  /\ user_memory = <<>>
  /\ recent_activity = <<>>
  /\ clock = 0
  /\ arrays = <<>>
  /\ late = {}
  /\ resp = [r \in Req |-> <<>>]
  /\ calls = [r \in Req |-> <<>>]

Next009 ==
  \E r \in {q \in Req : q <= MaxReq009} :
    \/ \E message \in {Undefined, "", MessageOf(r)}, sid \in SessionIds \cup {Undefined} :
         Chat009_Arrive(r, message, sid)
    \/ \E outcome \in {"ok", "threw", "malformed"}, content \in IntentOutputs009 :
         Chat009_Intent(r, outcome, content)
    \/ \E outcome \in {"ok", "threw", "malformed"} : Chat009_Completion(r, outcome)
    \/ \E outcome \in {"ok", "threw", "malformed"} : Chat009_SearchEmbedding(r, outcome)
    \/ \E outcome \in {"ok", "error", "threw"}, data \in MatchCourses :
         Chat009_SearchRpc(r, outcome, data)

Spec009 == Init009 /\ [][Next009]_vars

\* ------------------- part_009, part_016, part_018: POST /teachable-webhook
\* A delivery is handled like a request: pc, loc, resp and calls are indexed
\* by its arrival number.
MaxDeliveries == 2

MaxClock == 2

WebhookVariants == {"part_009", "part_016", "part_018"}

\* the fields of a delivery's body the handlers read: the event name, whether
\* the body has an object, the sale id (object.id || data.id), and the user
\* name, product name and country at the paths the running file reads.
\* "#42" is a name that is a number, not a string.
Delivery(event, object, id, name, product, country) ==
  [event |-> event, object |-> object, id |-> id, name |-> name,
   product |-> product, country |-> country]

\* a purchase; the same body under another event name; bodies that lack the
\* event name, the object, the sale id, the user name or the product name;
\* one whose name is a number; a purchase with another sale id
Bodies ==
  {Delivery("sale.created", TRUE, "sale1", "Ali Omar", "course1", "eg"),
   Delivery("user.updated", TRUE, "sale1", "Ali Omar", "course1", "eg"),
   Delivery(Undefined, TRUE, "sale1", "Ali Omar", "course1", Undefined),
   Delivery("sale.created", FALSE, Undefined, Undefined, Undefined, Undefined),
   Delivery("sale.created", TRUE, Undefined, "Ali Omar", "course1", "eg"),
   Delivery("user.updated", TRUE, "sale1", Undefined, "course1", Undefined),
   Delivery("sale.created", TRUE, "sale1", "Ali Omar", Undefined, "eg"),
   Delivery("sale.created", TRUE, "sale1", "#42", "course1", "eg"),
   Delivery("sale.created", TRUE, "sale2", "Ali Omar", "course1", "eg")}

\* text.split(" ")[0]
firstWord(text) == IF text = "Ali Omar" THEN "Ali" ELSE text

\* calling a string method on a value that is no string
notAString(v) == v = "#42"

\* String.prototype.toUpperCase
toUpperCase(text) == IF text = "eg" THEN "EG" ELSE text

\* countryCodeToName of part_009
countryCodeToName(code) ==
  IF Falsy(code) THEN "Unknown"
  ELSE IF toUpperCase(code) = "EG" THEN "Egypt" ELSE code

ActivityRow(sale_id, name, product, type, country) ==
  [sale_id |-> sale_id, name |-> name, product |-> product, type |-> type,
   country |-> country, created_at |-> Undefined]

NoLocWebhook == [message |-> Undefined, body |-> Undefined, row |-> Undefined,
                 oneMinuteAgo |-> 0]

\* res.status(status).send(text)
send(r, status, text) ==
  /\ resp' = [resp EXCEPT ![r] = Append(@, Response(status, text, Undefined))]
  /\ pc' = [pc EXCEPT ![r] = "done"]

\* the status sent after the insert returned: its error value is only logged
ackStatus_fail_on_error(error) == IF error THEN 500 ELSE 200

ackStatus(error) == 200

\* part_018: every delivery is inserted, with defaults for missing fields
Webhook018_Receive(r, body) ==
  /\ variant = "part_018"
  /\ NextToArrive(r) /\ r <= MaxDeliveries
  /\ IF ~Falsy(body.name) /\ notAString(body.name)
     THEN /\ calls' = [calls EXCEPT ![r] = thrown(@, "name.split")]
          /\ loc' = [loc EXCEPT ![r] = [NoLocWebhook EXCEPT !.body = body]]
          /\ send(r, 500, "Error")
     ELSE LET firstName == IF Falsy(body.name) THEN "NEW_STUDENT" ELSE firstWord(body.name)
              productName == IF Falsy(body.product) THEN "DIPLOMA" ELSE body.product
              eventType == IF Falsy(body.event) THEN "purchase" ELSE body.event
          IN /\ loc' = [loc EXCEPT ![r] = [NoLocWebhook EXCEPT !.body = body,
                          !.row = ActivityRow(Undefined, firstName, productName, eventType, Undefined)]]
             /\ await(r, calls[r], "insert_activity", "await_insertActivity")
  /\ UNCHANGED <<variant, conversations, db, aux>>

\* the code of part_016 and part_009 between the name test and the insert
prepareInsert(r, cs, body, sale_id, country) ==
  IF notAString(body.name)
  THEN /\ calls' = [calls EXCEPT ![r] = thrown(cs, "fullName.trim")]
       /\ loc' = [loc EXCEPT ![r].body = body]
       /\ send(r, 500, "Error")
  ELSE /\ loc' = [loc EXCEPT ![r].body = body,
                             ![r].row = ActivityRow(sale_id, firstWord(body.name), body.product,
                                                    "purchase", country)]
       /\ await(r, cs, "insert_activity", "await_insertActivity")

\* part_016: deliveries without an object or a sale id are acknowledged, the
\* others looked up by sale id
Webhook016_Receive(r, body) ==
  /\ variant = "part_016"
  /\ NextToArrive(r) /\ r <= MaxDeliveries
  /\ loc' = [loc EXCEPT ![r] = [NoLocWebhook EXCEPT !.body = body]]
  /\ IF ~body.object
     THEN send(r, 200, "No object") /\ UNCHANGED calls
     ELSE IF Falsy(body.id)
          THEN send(r, 200, "No sale id") /\ UNCHANGED calls
          ELSE awaitWith(r, calls[r], "select_activity", <<body.id>>, "await_existingSale")
  /\ UNCHANGED <<variant, conversations, db, aux>>

\* the lookup settles: a row with the sale id makes the delivery a duplicate;
\* a delivery without a user name or a product name is ignored
Webhook016_Existing(r, outcome) ==
  /\ variant = "part_016"
  /\ pc[r] = "await_existingSale"
  /\ LET body == loc[r].body
         existingSale == IF outcome = "ok"
                         THEN SelectSeq(recent_activity, LAMBDA row : row.sale_id = body.id)
                         ELSE <<>>
         cs == Settled(calls[r], outcome)
     IN IF outcome = "threw"
        THEN calls' = [calls EXCEPT ![r] = cs] /\ send(r, 500, "Error") /\ UNCHANGED loc
        ELSE IF Len(existingSale) > 0
        THEN calls' = [calls EXCEPT ![r] = cs] /\ send(r, 200, "Duplicate") /\ UNCHANGED loc
        ELSE IF Falsy(body.name) \/ Falsy(body.product)
        THEN calls' = [calls EXCEPT ![r] = cs] /\ send(r, 200, "Ignored") /\ UNCHANGED loc
        ELSE prepareInsert(r, cs, body, body.id,
                           IF Falsy(body.country) THEN "Unknown" ELSE toUpperCase(body.country))
  /\ UNCHANGED <<variant, conversations, db, aux>>

\* part_009: deliveries without a user name or a course name are ignored, the
\* others looked up by name and product in the last minute
Webhook009_Receive(r, body) ==
  /\ variant = "part_009"
  /\ NextToArrive(r) /\ r <= MaxDeliveries
  /\ IF ~body.object \/ Falsy(body.name) \/ Falsy(body.product)
     THEN /\ loc' = [loc EXCEPT ![r] = [NoLocWebhook EXCEPT !.body = body]]
          /\ send(r, 200, "Ignored") /\ UNCHANGED calls
     ELSE IF notAString(body.name)
     THEN /\ loc' = [loc EXCEPT ![r] = [NoLocWebhook EXCEPT !.body = body]]
          /\ calls' = [calls EXCEPT ![r] = thrown(@, "fullName.trim")]
          /\ send(r, 500, "Error")
     ELSE /\ loc' = [loc EXCEPT ![r] = [NoLocWebhook EXCEPT !.body = body,
                       !.oneMinuteAgo = clock - 1,
                       !.row = ActivityRow(Undefined, firstWord(body.name), body.product,
                                           "purchase", countryCodeToName(body.country))]]
          /\ awaitWith(r, calls[r], "select_activity", <<firstWord(body.name), body.product>>,
                       "await_existing")
  /\ UNCHANGED <<variant, conversations, db, aux>>

Webhook009_Existing(r, outcome) ==
  /\ variant = "part_009"
  /\ pc[r] = "await_existing"
  /\ LET row == loc[r].row
         existing == IF outcome = "ok"
                     THEN SelectSeq(recent_activity,
                                    LAMBDA old : /\ old.name = row.name /\ old.product = row.product
                                                 /\ old.created_at >= loc[r].oneMinuteAgo)
                     ELSE <<>>
         cs == Settled(calls[r], outcome)
     IN IF outcome = "threw"
        THEN calls' = [calls EXCEPT ![r] = cs] /\ send(r, 500, "Error")
        ELSE IF Len(existing) > 0
        THEN calls' = [calls EXCEPT ![r] = cs] /\ send(r, 200, "Duplicate")
        ELSE await(r, cs, "insert_activity", "await_insertActivity")
  /\ UNCHANGED <<variant, loc, conversations, db, aux>>

\* the insert settles; the table stamps the row with the time
Webhook_Insert(r, outcome) ==
  /\ variant \in WebhookVariants
  /\ pc[r] = "await_insertActivity"
  /\ calls' = [calls EXCEPT ![r] = Settled(@, outcome)]
  /\ recent_activity' =
       IF outcome = "ok"
       THEN Append(recent_activity, [loc[r].row EXCEPT !.created_at = clock])
       ELSE recent_activity
  /\ IF outcome = "threw"
     THEN send(r, 500, "Error")
     ELSE send(r, ackStatus(outcome = "error"), "OK")
  /\ UNCHANGED <<variant, loc, conversations, chat_messages, chat_events, user_memory, aux>>

\* a minute passes (only part_009 reads the time)
Tick ==
  /\ variant = "part_009"
  /\ clock < MaxClock
  /\ clock' = clock + 1
  /\ UNCHANGED <<variant, pc, loc, conversations, db, arrays, late, resp, calls>>

InitWebhook ==
  /\ variant \in WebhookVariants
  /\ pc = [r \in Req |-> "idle"]
  /\ loc = [r \in Req |-> NoLocWebhook]
  /\ conversations = << >>
  /\ chat_messages = <<>>
  /\ chat_events = <<>>
  /\ user_memory = <<>>
  /\ recent_activity = <<>>
  /\ clock = 0
  /\ arrays = <<>>
  /\ late = {}
  /\ resp = [r \in Req |-> <<>>]
  /\ calls = [r \in Req |-> <<>>]

NextWebhook ==
  \/ \E r \in Req :
       \/ \E body \in Bodies : Webhook018_Receive(r, body)
       \/ \E body \in Bodies : Webhook016_Receive(r, body)
       \/ \E outcome \in DbOutcomes : Webhook016_Existing(r, outcome)
       \/ \E body \in Bodies : Webhook009_Receive(r, body)
       \/ \E outcome \in DbOutcomes : Webhook009_Existing(r, outcome)
       \/ \E outcome \in DbOutcomes : Webhook_Insert(r, outcome)
  \/ Tick

SpecWebhook == InitWebhook /\ [][NextWebhook]_vars

\* ------------------------------------- the handlers that guard on the message
\* part_002 / part_010, server.js 469-629 and part_013, one of them running
InitChat == InitMem \/ Init469 \/ Init013

NextChat == NextMem \/ Next469 \/ Next013

SpecChat == InitChat /\ [][NextChat]_vars

\* the /chat routes whose requests chain the most upstream calls
InitSequential == Init000 \/ Init014 \/ Init013

NextSequential == Next000 \/ Next014 \/ Next013

SpecSequential == InitSequential /\ [][NextSequential]_vars

\* ------------------------------- part_007: the premium gate and the sales mode
MaxReq007 == 1

\* the premium_users table: u1 is active until time 2, u2 has lapsed
premium_users ==
  {[id |-> "u1", status |-> "active", subscription_expires_at |-> 2],
   [id |-> "u2", status |-> "cancelled", subscription_expires_at |-> 9]}

\* user ids a body may carry (u9 is in no row), or none
UserIds == {Undefined, "", "u1", "u2", "u9"}

\* .eq("id", user_id).eq("status", "active")
\* .gt("subscription_expires_at", now).maybeSingle(): the row, or no row
selectPremium_any_status(user_id, now) ==
  LET rows == {u \in premium_users : u.id = user_id /\ u.subscription_expires_at > now}
  IN IF rows = {} THEN <<>> ELSE <<CHOOSE u \in rows : TRUE>>

selectPremium(user_id, now) ==
  LET rows == {u \in premium_users :
                 /\ u.id = user_id
                 /\ u.status = "active"
                 /\ u.subscription_expires_at > now}
  IN IF rows = {} THEN <<>> ELSE <<CHOOSE u \in rows : TRUE>>

\* rows match_ai_knowledge may return: data is null with an error value; a
\* row may lack its url or its content; the title of k2 contains the message
\* of request 1
KnowledgeRows ==
  {Null, <<>>,
   <<[title |-> "k1", url |-> "u1", content |-> "text1"]>>,
   <<[title |-> "k1", url |-> "", content |-> "text1"]>>,
   <<[title |-> "k1", url |-> "u1", content |-> "text1"],
     [title |-> "m1", url |-> "u2", content |-> "text2"]>>,
   <<[title |-> "k1", url |-> "u1", content |-> Null]>>}

NoLoc007 == [message |-> Undefined, session_id |-> Undefined, user_id |-> Undefined,
             isPremium |-> FALSE, correctedMessage |-> Undefined, results |-> Null,
             reply |-> Undefined]

\* results.find(r => normalizeArabic(r.title).includes(normalizedMessage))
\* || results[0]
bestMatchOf(results, normalizedMessage) ==
  LET direct == SelectSeq(results, LAMBDA k : normalizeArabic(k.title) = normalizedMessage)
  IN IF Len(direct) > 0 THEN direct[1] ELSE results[1]

\* the sales branch: one completion with the sales prompt and the message
salesMode(r, cs) == awaitWith(r, cs, "completion", <<"salesPrompt">>, "await_sales")

Chat007_Arrive(r, message, sid, uid) ==
  /\ variant = "part_007"
  /\ NextToArrive(r)
  /\ IF Falsy(message)
     THEN /\ resp' = [resp EXCEPT ![r] = Append(@, Response(400, Body("NO_MESSAGE", <<>>, FALSE), Undefined))]
          /\ pc' = [pc EXCEPT ![r] = "done"]
          /\ UNCHANGED <<loc, calls>>
     ELSE /\ loc' = [loc EXCEPT ![r] = [NoLoc007 EXCEPT !.message = message,
                                          !.session_id = IF Falsy(sid) THEN randomUUID(r) ELSE sid,
                                          !.user_id = uid]]
          /\ IF ~Falsy(uid)
             THEN await(r, calls[r], "select_premium", "await_premium")
             ELSE salesMode(r, calls[r])
  /\ UNCHANGED <<variant, conversations, db, aux>>

\* the subscription lookup settles (its error value is not read);
\* isPremium = !!premiumUser; if (!isPremium) the sales branch
Chat007_Premium(r, outcome) ==
  /\ variant = "part_007"
  /\ pc[r] = "await_premium"
  /\ IF outcome = "threw"
     THEN /\ calls' = [calls EXCEPT ![r] = Settled(@, outcome)]
          /\ catch500(r)
          /\ UNCHANGED loc
     ELSE LET premiumUser == IF outcome = "ok" THEN selectPremium(loc[r].user_id, clock) ELSE <<>>
              isPremium == premiumUser # <<>>
          IN /\ loc' = [loc EXCEPT ![r].isPremium = isPremium]
             /\ IF ~isPremium
                THEN salesMode(r, Settled(calls[r], outcome))
                ELSE awaitWith(r, Settled(calls[r], outcome), "completion", <<"correctUserIntent">>,
                               "await_correct")
  /\ UNCHANGED <<variant, conversations, db, aux>>

\* the sales completion settles; res.json({ reply, session_id })
Chat007_Sales(r, outcome) ==
  /\ variant = "part_007"
  /\ pc[r] = "await_sales"
  /\ calls' = [calls EXCEPT ![r] = Settled(@, outcome)]
  /\ IF outcome # "ok"
     THEN catch500(r) /\ UNCHANGED loc
     ELSE /\ loc' = [loc EXCEPT ![r].reply = ContentOf(r)]
          /\ resp' = [resp EXCEPT ![r] = Append(@, Response(200, Body(ContentOf(r), <<>>, FALSE), loc[r].session_id))]
          /\ pc' = [pc EXCEPT ![r] = "done"]
  /\ UNCHANGED <<variant, conversations, db, aux>>

\* correctUserIntent settles; createEmbedding(correctedMessage) is issued
Chat007_Corrected(r, outcome) ==
  /\ variant = "part_007"
  /\ pc[r] = "await_correct"
  /\ IF outcome # "ok"
     THEN /\ calls' = [calls EXCEPT ![r] = Settled(@, outcome)]
          /\ catch500(r)
          /\ UNCHANGED loc
     ELSE /\ loc' = [loc EXCEPT ![r].correctedMessage = loc[r].message]
          /\ await(r, Settled(calls[r], "ok"), "embedding", "await_embedding")
  /\ UNCHANGED <<variant, conversations, db, aux>>

Chat007_Embedding(r, outcome) ==
  /\ variant = "part_007"
  /\ pc[r] = "await_embedding"
  /\ IF outcome # "ok"
     THEN /\ calls' = [calls EXCEPT ![r] = Settled(@, outcome)]
          /\ catch500(r)
     ELSE await(r, Settled(calls[r], "ok"), "rpc", "await_rpc")
  /\ UNCHANGED <<variant, loc, conversations, db, aux>>

\* match_ai_knowledge settles (its error value is not read); the context is
\* built from the rows' contents and the last completion is issued
Chat007_Rpc(r, outcome, data) ==
  /\ variant = "part_007"
  /\ pc[r] = "await_rpc"
  /\ IF outcome = "threw"
     THEN /\ calls' = [calls EXCEPT ![r] = Settled(@, outcome)]
          /\ catch500(r)
          /\ UNCHANGED loc
     ELSE LET results == IF outcome = "ok" THEN data ELSE Null
          IN IF results # Null /\ \E i \in 1..Len(results) : results[i].content = Null
             THEN /\ calls' = [calls EXCEPT ![r] = thrown(Settled(@, outcome), "r.content.slice")]
                  /\ catch500(r)
                  /\ UNCHANGED loc
             ELSE /\ loc' = [loc EXCEPT ![r].results = results]
                  /\ awaitWith(r, Settled(calls[r], outcome), "completion",
                               <<"systemPrompt">> \o
                                 (IF results = Null THEN <<>>
                                  ELSE [i \in 1..Len(results) |-> results[i].content]),
                               "await_completion")
  /\ UNCHANGED <<variant, conversations, db, aux>>

\* the last completion settles; the link of the best match; the fixed reply
\* when there is no row; res.json({ reply, session_id })
Chat007_Completion(r, outcome) ==
  /\ variant = "part_007"
  /\ pc[r] = "await_completion"
  /\ calls' = [calls EXCEPT ![r] = Settled(@, outcome)]
  /\ IF outcome # "ok"
     THEN catch500(r) /\ UNCHANGED loc
     ELSE LET results == loc[r].results
              none == results = Null \/ results = <<>>
              bestMatch == IF none THEN <<>>
                           ELSE <<bestMatchOf(results, normalizeArabic(loc[r].correctedMessage))>>
              links == IF bestMatch # <<>> /\ ~Falsy(bestMatch[1].url) THEN bestMatch ELSE <<>>
              reply == IF none THEN Body("NO_RESULTS", <<>>, FALSE)
                       ELSE Body(ContentOf(r), links, FALSE)
          IN /\ loc' = [loc EXCEPT ![r].reply = reply.text]
             /\ resp' = [resp EXCEPT ![r] = Append(@, Response(200, reply, loc[r].session_id))]
             /\ pc' = [pc EXCEPT ![r] = "done"]
  /\ UNCHANGED <<variant, conversations, db, aux>>

\* requests reach the server at any time around u1's expiry
Init007 ==
  /\ variant = "part_007"
  /\ pc = [r \in Req |-> "idle"]
  /\ loc = [r \in Req |-> NoLoc007]
  /\ conversations = << >>
  /\ chat_messages = <<>>
  /\ chat_events = <<>>
  /\ user_memory = <<>>
  /\ recent_activity = <<>>
  /\ clock \in 1..3
  /\ arrays = <<>>
  /\ late = {}
  /\ resp = [r \in Req |-> <<>>]
  /\ calls = [r \in Req |-> <<>>]

Next007 ==
  \E r \in {q \in Req : q <= MaxReq007} :
    \/ \E message \in {Undefined, "", MessageOf(r)}, sid \in SessionIds \cup {Undefined},
          uid \in UserIds :
         Chat007_Arrive(r, message, sid, uid)
    \/ \E outcome \in DbOutcomes : Chat007_Premium(r, outcome)
    \/ \E outcome \in {"ok", "threw", "malformed"} : Chat007_Sales(r, outcome)
    \/ \E outcome \in {"ok", "threw", "malformed"} : Chat007_Corrected(r, outcome)
    \/ \E outcome \in {"ok", "threw", "malformed"} : Chat007_Embedding(r, outcome)
    \/ \E outcome \in DbOutcomes, data \in KnowledgeRows : Chat007_Rpc(r, outcome, data)
    \/ \E outcome \in {"ok", "threw", "malformed"} : Chat007_Completion(r, outcome)

Spec007 == Init007 /\ [][Next007]_vars

\* ----------------------- part_000 30-68: levenshtein and the keyword correction
\* A string is the sequence of its characters (UTF-16 code units, which is
\* what a[j - 1] reads); an Arabic letter is written by its name.
MaxLen == 3
MaxWords == 2

Letters == {"x", "y"}

Strings == UNION {[1..n -> Letters] : n \in 0..MaxLen}

Math_min(x, y, z) ==
  IF x <= y /\ x <= z THEN x ELSE IF y <= z THEN y ELSE z

\* the inner loop, for (let j = 1; j <= a.length; j++): row holds
\* matrix[i][1..j-1], above is matrix[i-1][1..], and column 0 of row i is i;
\* the mutant below has no substitution
RECURSIVE matrixRow_no_substitution(_, _, _, _, _)
matrixRow_no_substitution(a, ch, above, i, row) ==
  LET j == Len(row) + 1
      left == IF j = 1 THEN i ELSE row[j - 1]
      diagonal == IF j = 1 THEN i - 1 ELSE above[j - 1]
  IN IF j > Len(a) THEN row
     ELSE matrixRow_no_substitution(a, ch, above, i,
            Append(row, IF ch = a[j] THEN diagonal
                        ELSE Math_min(diagonal + 2, left + 1, above[j] + 1)))

RECURSIVE matrixRow(_, _, _, _, _)
matrixRow(a, ch, above, i, row) ==
  LET j == Len(row) + 1
      left == IF j = 1 THEN i ELSE row[j - 1]
      diagonal == IF j = 1 THEN i - 1 ELSE above[j - 1]
  IN IF j > Len(a) THEN row
     ELSE matrixRow(a, ch, above, i,
            Append(row, IF ch = a[j] THEN diagonal
                        ELSE Math_min(diagonal + 1, left + 1, above[j] + 1)))

\* the outer loop, for (let i = 1; i <= b.length; i++), from row 0
\* (matrix[0][j] = j); the last row is returned
RECURSIVE matrix(_, _, _, _)
matrix(a, b, i, above) ==
  IF Len(above) = Len(a) /\ i > Len(b) THEN above
  ELSE matrix(a, b, i + 1, matrixRow(a, b[i], above, i, <<>>))

\* return matrix[b.length][a.length]
levenshtein(a, b) ==
  IF Len(a) = 0 THEN Len(b)
  ELSE matrix(a, b, 1, [j \in 1..Len(a) |-> j])[Len(a)]

\* const keywords = [ ... ]
keywords ==
  << <<"alef", "lam", "ya", "sin", "ta", "ra", "ya", "ta", "waw", "ra">>,
     <<"i", "l", "l", "u", "s", "t", "r", "a", "t", "o", "r">>,
     <<"fa", "waw", "ta", "waw", "shin", "waw", "ba">>,
     <<"p", "h", "o", "t", "o", "s", "h", "o", "p">> >>

\* for (let keyword of keywords) if (levenshtein(word, keyword) <= 2) return
\* keyword; return word
RECURSIVE correctWord(_, _)
correctWord(word, k) ==
  IF k > Len(keywords) THEN word
  ELSE IF levenshtein(word, keywords[k]) <= 2 THEN keywords[k]
  ELSE correctWord(word, k + 1)

\* text.split(" ").map(...).join(" "): a text is held as the words split
\* returns (at least one, possibly empty)
smartKeywordCorrection(words) == [w \in 1..Len(words) |-> correctWord(words[w], 1)]

\* words a message may hold: the keywords, misspellings one, two and three
\* edits away, a word near two keywords' lengths but far from both, the
\* empty word
Words ==
  {keywords[2], keywords[4], keywords[3],
   <<"i", "l", "u", "s", "t", "r", "a", "t", "o", "r">>,
   <<"i", "l", "u", "s", "t", "r", "a", "t", "e", "r">>,
   <<"e", "l", "u", "s", "t", "r", "a", "t", "e", "r">>,
   <<"f", "o", "t", "o", "s", "h", "o", "p">>,
   <<"f", "o", "t", "o", "s", "h", "o">>,
   <<"fa", "waw", "ta", "shin", "ba">>,
   <<"h", "e", "l", "l", "o">>,
   <<>>}

Texts == UNION {[1..n -> Words] : n \in 1..MaxWords}

NoLocKeyword == [a |-> <<>>, b |-> <<>>, text |-> <<>>, corrected |-> <<>>]

\* levenshtein(a, b) is called
Levenshtein_Step(r) ==
  /\ variant = "part_000_keywords"
  /\ pc[r] = "pair"
  /\ resp' = [resp EXCEPT ![r] = Append(@, levenshtein(loc[r].a, loc[r].b))]
  /\ pc' = [pc EXCEPT ![r] = "measured"]
  /\ UNCHANGED <<variant, loc, conversations, db, aux, calls>>

\* smartKeywordCorrection is called on a text, and again on what it returned
Correction_Step(r) ==
  /\ variant = "part_000_keywords"
  /\ pc[r] \in {"text", "corrected"}
  /\ LET out == smartKeywordCorrection(loc[r].corrected)
     IN /\ loc' = [loc EXCEPT ![r].corrected = out]
        /\ resp' = [resp EXCEPT ![r] = Append(@, out)]
  /\ pc' = [pc EXCEPT ![r] = IF pc[r] = "text" THEN "corrected" ELSE "corrected_twice"]
  /\ UNCHANGED <<variant, conversations, db, aux, calls>>

InitKeyword ==
  /\ variant = "part_000_keywords"
  /\ \/ /\ pc = [r \in Req |-> IF r = 1 THEN "pair" ELSE "idle"]
        /\ \E a \in Strings, b \in Strings :
             loc = [r \in Req |-> IF r = 1 THEN [NoLocKeyword EXCEPT !.a = a, !.b = b]
                                  ELSE NoLocKeyword]
     \/ /\ pc = [r \in Req |-> IF r = 1 THEN "text" ELSE "idle"]
        /\ \E text \in Texts :
             loc = [r \in Req |-> IF r = 1
                                  THEN [NoLocKeyword EXCEPT !.text = text, !.corrected = text]
                                  ELSE NoLocKeyword]
  /\ conversations = << >>
  /\ chat_messages = <<>>
  /\ chat_events = <<>>
  /\ user_memory = <<>>
  /\ recent_activity = <<>>
  /\ clock = 0
  /\ arrays = <<>>
  /\ late = {}
  /\ resp = [r \in Req |-> <<>>]
  /\ calls = [r \in Req |-> <<>>]

NextKeyword ==
  \E r \in Req :
    \/ Levenshtein_Step(r)
    \/ Correction_Step(r)

SpecKeyword == InitKeyword /\ [][NextKeyword]_vars

\* ------------- part_013, part_000, server.js 469: every request is answered
InitAnswered == Init013 \/ Init000 \/ Init469

NextAnswered == Next013 \/ Next000 \/ Next469

SpecAnswered == InitAnswered /\ [][NextAnswered]_vars

\* the upstream call request r awaits returns or throws, and the handler
\* runs on to its next await or to its response
Resumes(r) == NextAnswered /\ pc[r] # "idle" /\ pc'[r] # pc[r]

\* ------------------------------------------------------------------ claims
IsPrefix(s, t) == Len(s) <= Len(t) /\ SubSeq(t, 1, Len(s)) = s

AllDone == \A r \in Req : pc[r] = "done"

\* C2: requests on one session overlap, yet the history holds each request's
\* user turn directly followed by that request's assistant turn, the pairs
\* in arrival order.
C2_TurnsPairedInArrivalOrder ==
  \A s \in DOMAIN conversations :
    LET h == conversations[s] IN
      /\ \A j \in 1..Len(h), q \in Req :
            h[j] = Turn("assistant", ContentOf(q)) =>
              j > 1 /\ h[j - 1] = Turn("user", MessageOf(q))
      /\ \A i, j \in 1..Len(h), p, q \in Req :
            (i < j /\ h[i] = Turn("user", MessageOf(p)) /\ h[j] = Turn("user", MessageOf(q)))
              => p < q

\* C4: a session's history only grows: each step leaves every session in
\* the map and its earlier history a prefix of the later one.
C4_HistoryOnlyGrows ==
  [][\A s \in DOMAIN conversations :
       s \in DOMAIN conversations' /\ IsPrefix(conversations[s], conversations'[s])]_vars

C4_TwoRequestsAppended ==
  \E s \in DOMAIN conversations :
    /\ Len(conversations[s]) >= 4
    /\ \E p, q \in Req : p # q /\ pc[p] = "done" /\ pc[q] = "done"
                           /\ loc[p].session_id = s /\ loc[q].session_id = s

\* C8: a request one of whose awaited steps threw has exactly one response,
\* the 500 with the fixed body, and nobody gets more than one response.
Threw(r) == \E i \in 1..Len(calls[r]) : calls[r][i].outcome \in {"threw", "malformed"}

C8_ThrowGivesOne500 ==
  \A r \in Req :
    /\ Len(resp[r]) <= 1
    /\ Threw(r) => resp[r] = <<Response(500, Body("TEMP_ERROR", <<>>, FALSE), Undefined)>>

C8_ThrewAfterPartialReply ==
  \E r \in Req : Threw(r) /\ loc[r].reply # Undefined /\ pc[r] = "done"

\* C5: a follow-up keyword in a session with a stored last course is answered
\* with the templated sentence of that course's field, without an embedding
\* or a completion call.
Templated(message, course) ==
  CASE message = "alsi3r"   -> "PRICE_IS:" \o course.price
    [] message = "almuddat" -> "DURATION_IS:" \o course.duration
    [] message = "rabit"    -> "LINK_IS:" \o course.url
    [] OTHER                -> "NONE"

HasKeyword(message) == message \in {"alsi3r", "almuddat", "rabit"}

NoModelCall(r) ==
  \A i \in 1..Len(calls[r]) : calls[r][i].kind \notin {"embedding", "completion"}

AnsweredFromCourse(r) ==
  /\ resp[r] = <<Response(200, Body(Templated(loc[r].message, courses[loc[r].activeDocumentId][1]),
                                    <<>>, FALSE), Undefined)>>
  /\ NoModelCall(r)

C9_OkRepliesCarrySessionId ==
  \A r \in Req : \A i \in 1..Len(resp[r]) :
    resp[r][i].status = 200 =>
      (resp[r][i].session_id # Undefined /\ resp[r][i].session_id = loc[r].session_id)

\* C10: createEmbeddingSafe calls the embedding API at most 3 times, each
\* retry right after the 1500 ms delay that follows a failed attempt, never
\* again after a success (whose embedding goes to the search), and after
\* three failures returns null: the handler answers 200, not 500.
EmbeddingAttempts(r) == {i \in 1..Len(calls[r]) : calls[r][i].kind = "embedding"}

Failed(call) == call.outcome \in {"threw", "malformed"}

C10_BoundedRetries ==
  \A r \in Req :
    LET cs == calls[r]
        att == EmbeddingAttempts(r)
    IN /\ Cardinality(att) <= 3
       /\ \A i \in att :
            (\E j \in att : j < i) =>
              /\ i >= 3
              /\ cs[i - 1].kind = "delay" /\ cs[i - 1].arg = <<1500>>
              /\ cs[i - 2].kind = "embedding" /\ Failed(cs[i - 2])
       /\ \A i \in att :
            cs[i].outcome = "ok" =>
              /\ \A j \in att : j <= i
              /\ i < Len(cs) /\ cs[i + 1].kind = "rpc"
       /\ (Cardinality(att) = 3 /\ \A i \in att : Failed(cs[i])) =>
            /\ pc[r] = "done"
            /\ resp[r] = <<Response(200, Body("TEMPORARY_ERROR", <<>>, FALSE), Undefined)>>
            /\ cs[Len(cs)].kind = "embedding"

C10_ThreeAttemptsFailed ==
  \E r \in Req :
    /\ Cardinality(EmbeddingAttempts(r)) = 3
    /\ \A i \in EmbeddingAttempts(r) : Failed(calls[r][i])
    /\ pc[r] = "done"

\* C3: a turn is appended only to the array that the session map holds for
\* the session at that moment.
C3_AppendsOnlyToRegisteredHistory ==
  [][\A ref \in 1..Len(arrays) :
       arrays'[ref] # arrays[ref] =>
         \E s \in DOMAIN conversations : conversations[s].history = ref]_vars

\* C6: when match_documents gave no row for every phrasing at each of the
\* thresholds 0.2, 0.12, 0.08, 0.05 and 0.03, the request is answered with the
\* fixed "not available" reply, which carries no course link.
LadderExhausted(r) ==
  /\ loc[r].queries # Undefined
  /\ \A t \in {20, 12, 8, 5, 3} : \A k \in 1..Len(loc[r].queries) :
       \E i \in 1..Len(calls[r]) :
         /\ calls[r][i].kind = "rpc"
         /\ calls[r][i].arg = <<t, loc[r].queries[k]>>
         /\ calls[r][i].outcome = "empty"

C6_NoRowsGivesFixedReply ==
  \A r \in Req :
    LadderExhausted(r) =>
      /\ pc[r] = "done"
      /\ resp[r] = <<Response(200, Body("NOT_AVAILABLE", <<>>, FALSE), Undefined)>>

C6_TwoPhrasingsExhausted ==
  \E r \in Req :
    /\ loc[r].queries # Undefined /\ Len(loc[r].queries) = 2
    /\ LadderExhausted(r)
    /\ Cardinality({i \in 1..Len(calls[r]) : calls[r][i].kind = "rpc"}) = 10

\* C7: the formatting step run on its own output returns that output.
C7_FormatIdempotent ==
  \A r \in Req : pc[r] = "formatted_twice" => resp[r][2] = resp[r][1]

\* C1: a request whose body has no message, or an empty one, gets one 400
\* response in the step it arrives, issues no upstream call then or later,
\* and leaves the session map and the tables as they were.
C1_MissingMessageRejected ==
  [][\A r \in Req :
       /\ (pc[r] = "idle" /\ pc'[r] # "idle" /\ loc'[r].message \in {Undefined, ""}) =>
            /\ pc'[r] = "done"
            /\ Len(resp'[r]) = 1 /\ resp'[r][1].status = 400
            /\ calls' = calls /\ calls[r] = <<>>
            /\ conversations' = conversations
            /\ chat_messages' = chat_messages /\ chat_events' = chat_events
            /\ user_memory' = user_memory /\ recent_activity' = recent_activity
            /\ arrays' = arrays /\ late' = late
       /\ (pc[r] = "done" /\ loc[r].message \in {Undefined, ""}) =>
            (calls'[r] = <<>> /\ resp'[r] = resp[r] /\ pc'[r] = "done")]_vars

C1_RejectedWhileAnotherRuns ==
  \E r, q \in Req :
    /\ q < r
    /\ pc[r] = "done" /\ loc[r].message = Undefined
    /\ resp[r] = <<Response(400, Body("NO_MESSAGE", <<>>, FALSE), Undefined)>>
    /\ pc[q] = "await_completion" /\ DOMAIN conversations # {}

\* C11: a delivery gets one response: 500 when something threw while it was
\* handled, else 200, whether it was ignored, a duplicate, inserted or its
\* insert returned an error value.
C11_WebhookAcknowledges ==
  \A r \in Req :
    /\ Len(resp[r]) <= 1
    /\ pc[r] = "done" =>
         /\ Len(resp[r]) = 1
         /\ resp[r][1].status = IF Threw(r) THEN 500 ELSE 200

C11_InsertErrorAcknowledged ==
  \E r \in Req :
    /\ pc[r] = "done" /\ resp[r] = <<Response(200, "OK", Undefined)>>
    /\ \E i \in 1..Len(calls[r]) :
         calls[r][i].kind = "insert_activity" /\ calls[r][i].outcome = "error"
    /\ \E q \in Req : q # r /\ resp[q] = <<Response(500, "Error", Undefined)>>

\* C12: a row is inserted only for a delivery whose event name is one of the
\* purchase events.
Inserted(r) ==
  \E i \in 1..Len(calls[r]) :
    calls[r][i].kind = "insert_activity" /\ calls[r][i].outcome = "ok"

C12_OnlyListedEventsInserted ==
  \A r \in Req : Inserted(r) => loc[r].body.event \in {"sale.created"}

\* C13: in the sale-id variant the table never holds two rows of one sale.
C13_OneRowPerSale ==
  variant = "part_016" =>
    \A i, j \in 1..Len(recent_activity) :
      recent_activity[i].sale_id = recent_activity[j].sale_id => i = j

\* C14: once the classifier's completion has returned, whatever its content,
\* the request goes on with a label in hand: a domain and a level.
C14_ClassifierYieldsLabel ==
  [][\A r \in Req :
       (/\ variant = "part_014"
        /\ pc[r] = "await_intent" /\ pc'[r] # "await_intent"
        /\ \E i \in 1..Len(calls'[r]) :
             calls'[r][i].arg = <<"detectIntent">> /\ calls'[r][i].outcome = "ok") =>
         /\ pc'[r] # "done"
         /\ Len(loc'[r].intent) = 1]_vars

\* C15: a request that reaches the final completion has run the retrieval or
\* has looked up the session's last course, and never both.
Called(r, kind, arg) ==
  \E i \in 1..Len(calls[r]) : calls[r][i].kind = kind /\ calls[r][i].arg = arg

C15_ExactlyOneMode ==
  \A r \in Req :
    (variant = "part_000" /\ Called(r, "completion", <<"final">>)) =>
      (Called(r, "completion", <<"expansion">>) # Called(r, "select_last_course", <<>>))

\* C16: of the calls a request has issued only the last one can be
\* outstanding (pending, or still in flight behind its expired timer): a call
\* is issued only when every earlier one has settled.
Outstanding(call) == call.outcome \in {"pending", "timeout"}

C16_OneCallOutstanding ==
  \A r \in Req :
    \A i \in 1..Len(calls[r]) : Outstanding(calls[r][i]) => i = Len(calls[r])

C16_FourthCallAfterThreeSettled ==
  \E r \in Req :
    /\ variant = "part_000"
    /\ Len(calls[r]) >= 4
    /\ calls[r][Len(calls[r])].kind = "rpc" /\ calls[r][Len(calls[r])].outcome = "pending"
    /\ calls[r][Len(calls[r]) - 1].kind = "embedding"
    /\ calls[r][Len(calls[r]) - 1].outcome = "ok"

\* C17: the match_documents calls of a request run through the thresholds
\* 0.2, 0.12, 0.08, 0.05, 0.03 in that order, every phrasing at one
\* threshold before the next; no call follows at a lower threshold once a
\* call has returned a row; the final list holds rows of the tier that
\* stopped the ladder, no id twice, in descending similarity, five at most,
\* and its first entry is the selected course.
RpcCalls(r) == SelectSeq(calls[r], LAMBDA call : call.kind = "rpc")

C17_ThresholdLadder ==
  \A r \in Req :
    variant = "part_000" =>
      LET rpcs == RpcCalls(r)
          queries == loc[r].queries
          final == loc[r].finalResults
          ladder == <<20, 12, 8, 5, 3>>
      IN /\ \A i \in 1..Len(rpcs) :
              rpcs[i].arg = <<ladder[((i - 1) \div Len(queries)) + 1],
                              queries[((i - 1) % Len(queries)) + 1]>>
         /\ \A i, j \in 1..Len(rpcs) :
              (i < j /\ rpcs[i].outcome = "ok") => rpcs[j].arg[1] = rpcs[i].arg[1]
         /\ Len(final) <= 5
         /\ \A i, j \in 1..Len(final) :
              /\ final[i].id = final[j].id => i = j
              /\ i < j => final[i].similarity >= final[j].similarity
         /\ \A i \in 1..Len(final) :
              \E k \in 1..Len(loc[r].allResults) : loc[r].allResults[k] = final[i]
         /\ loc[r].selectedCourse = IF Len(final) > 0 THEN <<final[1]>> ELSE <<>>

C17_SixRowsInThirdTier ==
  \E r \in Req :
    /\ variant = "part_000"
    /\ Len(loc[r].finalResults) = 5
    /\ Len(loc[r].allResults) = 6
    /\ loc[r].tier = 3
    /\ Len(RpcCalls(r)) = 6
    /\ loc[r].selectedCourse = <<[id |-> "d7", similarity |-> 50]>>

\* C18: a request whose embedding attempts have all failed, with no retry
\* left, is answered 200 with the temporary-error reply and has issued no
\* search, no course lookup and no insert of an assistant message.
NoAttemptLeft(r) ==
  /\ variant = "part_013"
  /\ pc[r] \notin {"await_embedding", "await_retryDelay"}
  /\ EmbeddingAttempts(r) # {}
  /\ \A i \in EmbeddingAttempts(r) : Failed(calls[r][i])

C18_NoSearchAfterFailedEmbedding ==
  \A r \in Req :
    NoAttemptLeft(r) =>
      /\ resp[r] = <<Response(200, Body("TEMPORARY_ERROR", <<>>, FALSE), Undefined)>>
      /\ \A i \in 1..Len(calls[r]) :
           calls[r][i].kind \notin {"rpc", "select_course", "insert_assistant"}

C18_UserRowStoredThenEmbeddingFailed ==
  \E r \in Req :
    /\ NoAttemptLeft(r)
    /\ pc[r] = "done"
    /\ chat_messages = <<Row(loc[r].session_id, "user", loc[r].message, Null)>>

\* C19: a request sends one response at most, and one once it is done.  A
\* call wrapped in withTimeout that has not settled by its limit is the
\* request's last call and the request is answered 500; one that settled
\* first has its own result used: a rejection gives 500, an error value the
\* reply of its branch (none for the insert, whose result is not read), a
\* value lets the handler go on.  A timer firing after the call settled and
\* a call settling after its timer fired change nothing of any request.
TimedKinds == {"insert_user", "rpc", "select_course"}

Reply013(status, text) == <<Response(status, Body(text, <<>>, FALSE), Undefined)>>

LastKnown(rows, session_id) ==
  LET lastCourse == lastCourseRows(rows, session_id)
  IN IF Len(lastCourse) = 0 THEN Null ELSE lastCourse[1].course_id

C20_LastCourseIdFrame ==
  [][\A s \in SessionIds :
       (variant = "part_000" /\ LastKnown(chat_messages', s) # LastKnown(chat_messages, s)) =>
         /\ LastKnown(chat_messages', s) # Null
         /\ \E r \in Req :
              /\ loc[r].session_id = s
              /\ pc[r] = "await_insertAssistant" /\ pc'[r] = "done"
              /\ Len(loc[r].finalResults) > 0
              /\ LastKnown(chat_messages', s) = loc[r].finalResults[1].id]_vars

\* C21: the history a session holds has at most 10 turns and an even number
\* of turns, in every state another request can observe.
StoredHistory(s) == arrays[conversations[s].history]

C21_StoredHistoryBounded ==
  variant = "part_003" =>
    \A s \in DOMAIN conversations :
      Len(StoredHistory(s)) <= MaxHistory /\ Len(StoredHistory(s)) % 2 = 0

C21_TruncatedTwiceWhileOverlapping ==
  /\ variant = "part_003"
  /\ "s1" \in DOMAIN conversations
  /\ conversations["s1"].history = 3
  /\ Len(StoredHistory("s1")) = 10
  /\ Len(arrays[1]) = 14
  /\ \A r \in 1..2 : pc[r] = "done" /\ resp[r][1].status = 200

\* C22: what cleanHTML returns holds no newline, no <br> directly after a
\* <br>, and no heading tag.
C22_CleanOutput ==
  \A r \in Req :
    (variant = "server_636" /\ pc[r] = "cleaned") =>
      LET out == resp[r][1]
      IN /\ \A i \in 1..Len(out) : out[i] \notin {"\n", "<h1>", "</h1>"}
         /\ \A i \in 1..(Len(out) - 1) : ~(out[i] = "<br>" /\ out[i + 1] = "<br>")

\* C23: a 200 reply carries course links only when the classifier's label
\* is learning_intent or comparison; the links are courses of similarity
\* 0.60 or more, two at most, in descending similarity; a failed embedding
\* or search gives the reply without links, never a 500.
SearchCalls(r) ==
  {i \in 1..Len(calls[r]) : calls[r][i].kind \in {"embedding", "rpc"}}

C24_NoRepeatWithinAMinute ==
  variant = "part_009" =>
    /\ \A r \in Req : Inserted(r) => (~Falsy(loc[r].body.name) /\ ~Falsy(loc[r].body.product))
    /\ \A i, j \in 1..Len(recent_activity) :
         ( /\ i < j
           /\ recent_activity[i].name = recent_activity[j].name
           /\ recent_activity[i].product = recent_activity[j].product ) =>
           recent_activity[j].created_at - recent_activity[i].created_at >= 1

\* C25: the history a session holds after a request has completed is the
\* history it held just before, followed by the request's user turn and
\* assistant turn, cut to its last 10 turns: no turn is dropped but the
\* oldest ones.
C25_NoTurnLost ==
  [][\A r \in Req :
       ( /\ variant = "part_003"
         /\ pc[r] = "await_completion" /\ pc'[r] = "done"
         /\ resp'[r][1].status = 200 ) =>
         LET s == loc[r].session_id
         IN arrays'[conversations'[s].history] =
              sliceLast(StoredHistory(s) \o <<Turn("user", loc[r].correctedMessage),
                                              Turn("assistant", loc'[r].reply)>>, MaxHistory)]_vars

\* C26: a /chat request answered with the HTTP 500 error reply leaves the
\* session as it was before the request: the session's history holds no turn
\* of the failed request, neither its user turn nor the assistant turn
\* answering it.
TurnsOf(r) == {Turn("user", loc[r].message), Turn("assistant", ContentOf(r))}

C26_FailedRequestLeavesNoTurn ==
  \A r \in Req :
    ( /\ variant \in MemVariants
      /\ pc[r] = "done"
      /\ resp[r] # <<>>
      /\ resp[r][1].status = 500 ) =>
      LET history == conversations[loc[r].session_id]
      IN \A i \in 1..Len(history) : history[i] \notin TurnsOf(r)

\* C27: when the requests of a session are handled one after another and
\* every upstream call succeeds, the session's history after n requests is
\* the n pairs (user turn, assistant turn holding the model's reply to it) in
\* the order of the requests, and the history passed to the model for a
\* request is the earlier pairs followed by its user turn.  (The main
\* completion is the fourth call of a part_014 request.)
RequestsOf(s) == {r \in Req : loc[r].session_id = s}

RECURSIVE PairsUpTo(_, _)
PairsUpTo(s, k) ==
  IF k = 0 THEN <<>>
  ELSE PairsUpTo(s, k - 1) \o
         (IF k \in RequestsOf(s)
          THEN <<Turn("user", loc[k].message), Turn("assistant", ContentOf(k))>>
          ELSE <<>>)

AllAnswered == \A r \in Req : pc[r] \in {"idle", "done"}

EveryCallSucceeded ==
  \A r \in Req : \A i \in 1..Len(calls[r]) : calls[r][i].outcome = "ok"

C27_HistoryIsThePairs ==
  ( /\ variant = "part_014"
    /\ AllAnswered
    /\ EveryCallSucceeded ) =>
    \A s \in DOMAIN conversations :
      /\ conversations[s] = PairsUpTo(s, MaxReq)
      /\ \A r \in RequestsOf(s) :
           calls[r][4].arg =
             PairsUpTo(s, r - 1) \o <<Turn("user", loc[r].message)>>

\* C28: every POST /chat request gets exactly one HTTP response, never two
\* and never none, on every path of the handler, provided each upstream call
\* it awaits eventually returns or throws: an answered request has one
\* response, and a request not yet answered has none, is waiting for one
\* upstream call and runs on when that call returns or throws.
Awaiting(r) ==
  /\ calls[r] # <<>>
  /\ calls[r][Len(calls[r])].outcome = "pending"

C28_ExactlyOneResponse ==
  \A r \in Req :
    /\ Len(resp[r]) <= 1
    /\ pc[r] = "done" <=> Len(resp[r]) = 1
    /\ pc[r] \notin {"idle", "done"} => Awaiting(r) /\ ENABLED Resumes(r)

\* answered with the 500 of the catch block after a timer won its race, the
\* call that lost still in flight
C28_AnsweredOnceWithCallInFlight ==
  /\ variant = "part_013"
  /\ pc[1] = "done"
  /\ Len(resp[1]) = 1 /\ resp[1][1].status = 500
  /\ calls[1][Len(calls[1])].outcome = "timeout"
  /\ InFlight(1, "Supabase RPC") \in late

\* C29: in the premium-gated variant a request is treated as premium only if
\* it carries a user_id whose subscription lookup returned an active row not
\* yet expired; every other request is answered in sales mode: no embedding
\* is created, no knowledge search is issued, and its reply carries no
\* knowledge content and no course link.
Entitled(r) ==
  /\ ~Falsy(loc[r].user_id)
  /\ \E u \in premium_users :
       /\ u.id = loc[r].user_id
       /\ u.status = "active"
       /\ u.subscription_expires_at > clock

KindsOf(r) == {calls[r][i].kind : i \in 1..Len(calls[r])}

C29_SalesModeUnlessPremium ==
  \A r \in Req :
    variant = "part_007" =>
      /\ loc[r].isPremium => Entitled(r)
      /\ ~loc[r].isPremium =>
           /\ KindsOf(r) \subseteq {"select_premium", "completion"}
           /\ \A i \in 1..Len(calls[r]) :
                calls[r][i].kind = "completion" => calls[r][i].arg = <<"salesPrompt">>
           /\ \A i \in 1..Len(resp[r]) :
                resp[r][i].status = 200 => resp[r][i].reply = Body(ContentOf(r), <<>>, FALSE)

\* a user whose subscription ends at the very time of the request is looked
\* up without error and answered in sales mode
C29_LapsedUserGetsSales ==
  /\ variant = "part_007"
  /\ clock = 2
  /\ loc[1].user_id = "u1"
  /\ pc[1] = "done"
  /\ resp[1][1].status = 200
  /\ calls[1][1].outcome = "ok"
  /\ ~loc[1].isPremium

\* C30: levenshtein(a, b) is the minimum number of single-character
\* insertions, deletions and substitutions turning a into b (so it is
\* symmetric, and 0 exactly when a = b); smartKeywordCorrection replaces a
\* word by a keyword exactly when the word is within distance 2 of some
\* keyword (by the first such keyword of the list), leaves every other word
\* unchanged, and is idempotent.
\* The strings one edit away from s (an optimal edit sequence never needs a
\* string longer than the longer of its two ends).
Edits(s) ==
  LET n == Len(s)
  IN {SubSeq(s, 1, i - 1) \o SubSeq(s, i + 1, n) : i \in 1..n}
     \cup {[s EXCEPT ![i] = c] : i \in 1..n, c \in Letters}
     \cup {SubSeq(s, 1, i) \o <<c>> \o SubSeq(s, i + 1, n) : i \in 0..n, c \in Letters}

RECURSIVE Within(_, _)
Within(a, k) ==
  IF k = 0 THEN {a}
  ELSE LET nearer == Within(a, k - 1)
       IN nearer \cup UNION {{t \in Edits(s) : Len(t) <= MaxLen} : s \in nearer}

EditDistance(a, b) ==
  CHOOSE k \in 0..(Len(a) + Len(b)) :
    /\ b \in Within(a, k)
    /\ k = 0 \/ b \notin Within(a, k - 1)

FirstKeywordNear(word) ==
  LET near == {k \in 1..Len(keywords) : levenshtein(word, keywords[k]) <= 2}
  IN IF near = {} THEN word
     ELSE keywords[CHOOSE k \in near : \A other \in near : k <= other]

C30_DistanceAndCorrection ==
  \A r \in Req :
    variant = "part_000_keywords" =>
      /\ pc[r] = "measured" =>
           /\ resp[r][1] = EditDistance(loc[r].a, loc[r].b)
           /\ resp[r][1] = levenshtein(loc[r].b, loc[r].a)
           /\ resp[r][1] = 0 <=> loc[r].a = loc[r].b
      /\ pc[r] \in {"corrected", "corrected_twice"} =>
           /\ Len(resp[r][1]) = Len(loc[r].text)
           /\ \A w \in 1..Len(loc[r].text) : resp[r][1][w] = FirstKeywordNear(loc[r].text[w])
      /\ pc[r] = "corrected_twice" => resp[r][2] = resp[r][1]

\* a text corrected twice: its first word, two edits from a keyword, is
\* replaced, its second, three edits from the nearest keyword, is kept
C30_MisspellingReplaced ==
  /\ variant = "part_000_keywords"
  /\ pc[1] = "corrected_twice"
  /\ loc[1].text = << <<"f", "o", "t", "o", "s", "h", "o", "p">>,
                      <<"e", "l", "u", "s", "t", "r", "a", "t", "e", "r">> >>
  /\ resp[1][2] = <<keywords[4], <<"e", "l", "u", "s", "t", "r", "a", "t", "e", "r">> >>

====
